---------------------------- MODULE Spec2Model ----------------------------
(***************************************************************************)
(* The agentic loop of services/agent.py (ServiceAgent.process_request),   *)
(* the five provider adapters of providers/*.py it drives, and the JSON    *)
(* recovery of the final text (ServiceAgent._parse_json_response).         *)
(*                                                                         *)
(* Texts are sequences of tokens; a token stands for a run of characters   *)
(* that the regular expressions and json.loads of the code tell apart.     *)
(***************************************************************************)
EXTENDS Integers, Sequences, FiniteSets, TLC

(***************************************************************************)
(* Tokens of a text.                                                       *)
(***************************************************************************)
\* FENCE stands for the three backquotes that open and close a code block.
FENCE == "fence"
TAG == "json"
WS == " "
LB == "{"
RB == "}"
NUM == "1"
WORD == "x"
Tokens == {FENCE, TAG, WS, LB, RB, NUM, WORD}

\* Longest text given to JSON recovery in JsonSpec.
MaxLen == 5

RECURSIVE SeqsUpTo(_, _)
SeqsUpTo(S, n) ==
    IF n = 0 THEN {<<>>}
    ELSE LET shorter == SeqsUpTo(S, n - 1)
         IN  shorter \cup {Append(s, x) : s \in {t \in shorter : Len(t) = n - 1}, x \in S}

Texts == SeqsUpTo(Tokens, MaxLen)

(***************************************************************************)
(* json.loads on a token text: whitespace around the value is skipped; the *)
(* value is a number (a run of digits) or the empty object (whitespace is  *)
(* allowed between its braces).  Anything else is a JSONDecodeError.       *)
(***************************************************************************)
RECURSIVE LStrip(_)
LStrip(s) == IF s # <<>> /\ Head(s) = WS THEN LStrip(Tail(s)) ELSE s

RECURSIVE RStrip(_)
RStrip(s) == IF s # <<>> /\ s[Len(s)] = WS THEN RStrip(SubSeq(s, 1, Len(s) - 1)) ELSE s

IsNumber(s) == s # <<>> /\ \A i \in 1..Len(s) : s[i] = NUM

IsObject(s) ==
    /\ Len(s) >= 2
    /\ s[1] = LB
    /\ s[Len(s)] = RB
    /\ \A i \in 2..(Len(s) - 1) : s[i] = WS

JsonDecodes(s) == LET v == RStrip(LStrip(s)) IN IsNumber(v) \/ IsObject(v)

\* The value json.loads returns: the number's digits, or the empty object.
json_loads(s) ==
    LET v == RStrip(LStrip(s))
    IN  IF IsNumber(v) THEN [type |-> "number", digits |-> v]
        ELSE [type |-> "object", digits |-> <<>>]

(***************************************************************************)
(* re.findall(json_pattern, text) for the fenced-block pattern: the        *)
(* captures of                                                             *)
(* the non-overlapping matches, left to right.  A match opens at a fence,  *)
(* skips an optional tag and whitespace, and closes at the next fence; the *)
(* lazy capture leaves the whitespace before the closing fence out.        *)
(***************************************************************************)
RECURSIVE FirstIndex(_, _, _)
FirstIndex(s, tok, from) ==
    IF from > Len(s) THEN 0
    ELSE IF s[from] = tok THEN from
    ELSE FirstIndex(s, tok, from + 1)

RECURSIVE SkipWs(_, _)
SkipWs(s, from) == IF from <= Len(s) /\ s[from] = WS THEN SkipWs(s, from + 1) ELSE from

RECURSIVE FencedFrom(_, _)
FencedFrom(s, from) ==
    LET open == FirstIndex(s, FENCE, from)
        afterTag == IF open + 1 <= Len(s) /\ s[open + 1] = TAG THEN open + 2 ELSE open + 1
        start == SkipWs(s, afterTag)
        close == FirstIndex(s, FENCE, start)
    IN  IF open = 0 \/ close = 0 THEN <<>>
        ELSE <<RStrip(SubSeq(s, start, close - 1))>> \o FencedFrom(s, close + 1)

FencedMatches(s) == FencedFrom(s, 1)

(***************************************************************************)
(* re.findall(r'\{[\s\S]*\}', text): greedy, so the one match runs from    *)
(* the first opening brace to the last closing brace after it.             *)
(***************************************************************************)
RECURSIVE LastIndex(_, _, _)
LastIndex(s, tok, upto) ==
    IF upto < 1 THEN 0
    ELSE IF s[upto] = tok THEN upto
    ELSE LastIndex(s, tok, upto - 1)

BraceMatches(s) ==
    LET a == FirstIndex(s, LB, 1)
        b == LastIndex(s, RB, Len(s))
    IN  IF a = 0 \/ b < a THEN <<>> ELSE <<SubSeq(s, a, b)>>

\* The first element of matches that json.loads accepts (0 when none does):
\* the for/try/continue loops over the matches.
RECURSIVE FirstDecodable(_, _)
FirstDecodable(matches, i) ==
    IF i > Len(matches) THEN 0
    ELSE IF JsonDecodes(matches[i]) THEN i
    ELSE FirstDecodable(matches, i + 1)

(***************************************************************************)
(* The values process_request returns as data.                             *)
(***************************************************************************)
NoText == <<"(none)">>
NoValue == [type |-> "none", digits |-> <<>>]

Parsed(v) == [error |-> "", value |-> v, raw_response |-> NoText, keys |-> {"(value)"}]
EmptyResponsePayload ==
    [error |-> "Empty response from LLM", value |-> NoValue, raw_response |-> NoText,
     keys |-> {"error"}]
CouldNotParsePayload(text) ==
    [error |-> "Could not parse JSON from response", value |-> NoValue, raw_response |-> text,
     keys |-> {"error", "raw_response"}]
MaxIterationsPayload_NoPartialData ==
    [error |-> "Max iterations reached", value |-> NoValue, raw_response |-> NoText,
     keys |-> {"error"}]
MaxIterationsPayload ==
    [error |-> "Max iterations reached", value |-> NoValue, raw_response |-> NoText,
     keys |-> {"error", "partial_data"}]
NoResult ==
    [error |-> "", value |-> NoValue, raw_response |-> NoText, keys |-> {}]

\* _parse_json_response as one function: what the loop's return statements use.
parse_json_response(text) ==
    LET fenced == FencedMatches(text)
        braces == BraceMatches(text)
        f == FirstDecodable(fenced, 1)
        b == FirstDecodable(braces, 1)
    IN  IF text = <<>> THEN EmptyResponsePayload
        ELSE IF JsonDecodes(text) THEN Parsed(json_loads(text))
        ELSE IF f # 0 THEN Parsed(json_loads(fenced[f]))
        ELSE IF b # 0 THEN Parsed(json_loads(braces[b]))
        ELSE CouldNotParsePayload(text)


(***************************************************************************)
(* The tool catalog (services/tool_registry.py) and the vendors.           *)
(***************************************************************************)
Providers == {"anthropic", "openai", "openai_responses", "gemini", "vertex"}

\* Names of TOOL_FUNCTIONS; UnknownTool is a name the catalog does not hold.
TOOL_FUNCTIONS == {"geocode_location", "get_current_weather"}
UnknownTool == "lookup_stock"

\* TOOLS: the declarations of the catalog's tools, and the system prompt.
ToolDeclaration(name) ==
    [name |-> name, description |-> <<"describes ", name>>, input_schema |-> {"location"}]

TOOLS == <<ToolDeclaration("geocode_location"), ToolDeclaration("get_current_weather")>>

SYSTEM_PROMPT == "You are an automated service agent"

ModuleState ==
    [TOOLS |-> TOOLS, SYSTEM_PROMPT |-> SYSTEM_PROMPT, TOOL_FUNCTIONS |-> TOOL_FUNCTIONS]

\* complete_with_tools(messages=messages, tools=TOOLS, system_prompt=SYSTEM_PROMPT)
NoCallArguments == [tools |-> <<>>, system_prompt |-> ""]
CallArguments(state) == [tools |-> state.TOOLS, system_prompt |-> state.SYSTEM_PROMPT]

\* The module-level objects after the adapter built its request: _convert_tools
\* reads each declaration (tool["name"], tool.get("input_schema", {})) into a new
\* dict, and the Anthropic adapter hands the list to the SDK as it is.
AfterConvertTools_Pop(p, state) ==
    [state EXCEPT !.TOOLS = [i \in 1..Len(@) |-> [@[i] EXCEPT !.input_schema = {}]]]

AfterConvertTools(p, state) == state

max_iterations == 10

\* Most parts (content blocks, output items) of one vendor response.
MaxParts == 2

NoId == [tag |-> "none", n |-> 0]
VendorId(i) == [tag |-> "vendor", n |-> i]

\* The arguments of a tool call as the vendor sends them: a JSON object (the
\* text of one, or the mapping itself), a text that is no JSON, or nothing.
WellFormedArgs == "object"
MalformedArgs == "malformed"
NoArgs == "empty"

\* A mapping is the set of its (key, value) pairs.
LocationArgs == {<<"location", "Paris">>}
EmptyMapping == {}

TextPart(t) == [type |-> "text", text |-> t, name |-> "", id |-> NoId, args |-> NoArgs]
CallPart(name) ==
    [type |-> "call", text |-> <<>>, name |-> name, id |-> NoId, args |-> WellFormedArgs]

PartKinds ==
    {TextPart(<<WORD>>), TextPart(<<LB, RB>>),
     CallPart("geocode_location"), CallPart(UnknownTool)}

\* The vendor gives the tool calls of one response distinct ids.
WithIds(parts) ==
    [i \in 1..Len(parts) |->
        IF parts[i].type = "call" THEN [parts[i] EXCEPT !.id = VendorId(i)] ELSE parts[i]]

\* The usage section of a response.  Each field holds a count ("value"), holds
\* None ("none") or is not there ("absent"); section is false when the response
\* has no usage section at all.
Usage(i, o) ==
    [section |-> TRUE, input |-> "value", output |-> "value",
     input_tokens |-> i, output_tokens |-> o]

NoUsageSection ==
    [section |-> FALSE, input |-> "absent", output |-> "absent",
     input_tokens |-> 0, output_tokens |-> 0]

OddUsages ==
    {NoUsageSection,
     [Usage(5, 1) EXCEPT !.input = "none"],
     [Usage(5, 1) EXCEPT !.output = "absent"]}

(***************************************************************************)
(* A vendor response.  signal is the vendor's stop field ("stop" stands    *)
(* for stop_reason end_turn, finish_reason stop, status completed);        *)
(* present is false when choices / candidates is empty; parts are the      *)
(* content blocks, the message's text and tool calls, the output items or  *)
(* the candidate's parts.                                                  *)
(***************************************************************************)
Responses ==
    {[signal |-> sg, present |-> TRUE, parts |-> WithIds(ps), usage |-> Usage(5, 1)] :
        sg \in {"stop", "other"}, ps \in SeqsUpTo(PartKinds, MaxParts)}
    \cup {[signal |-> "other", present |-> FALSE, parts |-> <<>>, usage |-> Usage(0, 0)]}

\* The plain tool turn: the model asks for one catalog tool and goes on.
BaseResponse ==
    [signal |-> "other", present |-> TRUE,
     parts |-> WithIds(<<CallPart("geocode_location")>>), usage |-> Usage(3, 2)]

\* The plain final turn: the model answers with JSON text and stops.
FinalResponse ==
    [signal |-> "stop", present |-> TRUE,
     parts |-> <<TextPart(<<LB, RB>>)>>, usage |-> Usage(4, 1)]

PlainResponses == {BaseResponse, FinalResponse}

\* The plain turns with a usage section that is missing or incomplete.
OddUsageResponses ==
    {[r EXCEPT !.usage = u] : r \in PlainResponses, u \in OddUsages}

IsCall(part) == part.type = "call"
IsText(part) == part.type = "text"
HasCall(r) == \E i \in 1..Len(r.parts) : IsCall(r.parts[i])

RECURSIVE Concat(_)
Concat(texts) == IF texts = <<>> THEN <<>> ELSE Head(texts) \o Concat(Tail(texts))

TextsOf(parts) == [i \in 1..Len(SelectSeq(parts, IsText)) |-> SelectSeq(parts, IsText)[i].text]

ToolCall(id, name, input) == [id |-> id, name |-> name, input |-> input]

(***************************************************************************)
(* is_complete                                                             *)
(***************************************************************************)
AnthropicIsComplete(r) == r.signal = "stop"

OpenAIIsComplete(r) ==
    IF ~r.present THEN TRUE
    ELSE IF r.signal = "stop" THEN TRUE
    ELSE IF HasCall(r) THEN FALSE
    ELSE TRUE

ResponsesIsComplete(r) ==
    IF r.signal # "stop" THEN FALSE
    ELSE IF HasCall(r) THEN FALSE
    ELSE TRUE

GeminiIsComplete(r) ==
    IF ~r.present THEN TRUE
    ELSE IF r.parts = <<>> THEN TRUE
    ELSE IF HasCall(r) THEN FALSE
    ELSE TRUE

VertexIsComplete(r) ==
    IF ~r.present THEN TRUE
    ELSE IF r.parts = <<>> THEN TRUE
    ELSE IF HasCall(r) THEN FALSE
    ELSE TRUE

is_complete(p, r) ==
    CASE p = "anthropic" -> AnthropicIsComplete(r)
      [] p = "openai" -> OpenAIIsComplete(r)
      [] p = "openai_responses" -> ResponsesIsComplete(r)
      [] p = "gemini" -> GeminiIsComplete(r)
      [] p = "vertex" -> VertexIsComplete(r)

(***************************************************************************)
(* parse_tool_calls                                                        *)
(***************************************************************************)
\* block.input, fc.args: the mapping the SDK hands over (dict(fc.args) if fc.args else {}).
MappingOf(args) == IF args = WellFormedArgs THEN LocationArgs ELSE EmptyMapping

\* json.loads(arguments) if arguments else {}; except json.JSONDecodeError: {}
\* As if a text that is no JSON were handed on as the decoding error.
LoadsArguments_Uncaught(args) ==
    IF args = NoArgs THEN EmptyMapping
    ELSE IF args = MalformedArgs THEN {<<"raised", "JSONDecodeError">>}
    ELSE LocationArgs

LoadsArguments(args) ==
    IF args = NoArgs THEN EmptyMapping
    ELSE IF args = MalformedArgs THEN EmptyMapping
    ELSE LocationArgs

\* [block for block in response.content if block.type == "tool_use"]
CallsOf(parts) ==
    [i \in 1..Len(SelectSeq(parts, IsCall)) |->
        ToolCall(SelectSeq(parts, IsCall)[i].id, SelectSeq(parts, IsCall)[i].name,
                 MappingOf(SelectSeq(parts, IsCall)[i].args))]

\* The tool_calls / function_calls entry of the assistant message: id, name and
\* the arguments as the vendor sent them.
RawCallsOf(parts) ==
    [i \in 1..Len(SelectSeq(parts, IsCall)) |->
        ToolCall(SelectSeq(parts, IsCall)[i].id, SelectSeq(parts, IsCall)[i].name,
                 SelectSeq(parts, IsCall)[i].args)]

\* for tc in message.tool_calls / for item in response.output: ToolCall(id, name, args)
LoadedCallsOf(parts) ==
    [i \in 1..Len(SelectSeq(parts, IsCall)) |->
        ToolCall(SelectSeq(parts, IsCall)[i].id, SelectSeq(parts, IsCall)[i].name,
                 LoadsArguments(SelectSeq(parts, IsCall)[i].args))]

\* for i, part in enumerate(parts): the id is made from the part's index.
RECURSIVE EnumeratedCalls(_, _, _)
EnumeratedCalls(parts, i, tag) ==
    IF i > Len(parts) THEN <<>>
    ELSE IF IsCall(parts[i])
         THEN <<ToolCall([tag |-> tag, n |-> i - 1], parts[i].name, MappingOf(parts[i].args))>>
              \o EnumeratedCalls(parts, i + 1, tag)
         ELSE EnumeratedCalls(parts, i + 1, tag)

AnthropicParseToolCalls(r) == CallsOf(r.parts)

OpenAIParseToolCalls(r) == IF ~r.present THEN <<>> ELSE LoadedCallsOf(r.parts)

ResponsesParseToolCalls(r) == LoadedCallsOf(r.parts)

GeminiParseToolCalls(r) ==
    IF ~r.present \/ r.parts = <<>> THEN <<>>
    ELSE EnumeratedCalls(r.parts, 1, "gemini_tool")

VertexParseToolCalls(r) ==
    IF ~r.present \/ r.parts = <<>> THEN <<>>
    ELSE EnumeratedCalls(r.parts, 1, "vertex_tool")

parse_tool_calls(p, r) ==
    CASE p = "anthropic" -> AnthropicParseToolCalls(r)
      [] p = "openai" -> OpenAIParseToolCalls(r)
      [] p = "openai_responses" -> ResponsesParseToolCalls(r)
      [] p = "gemini" -> GeminiParseToolCalls(r)
      [] p = "vertex" -> VertexParseToolCalls(r)

(***************************************************************************)
(* extract_final_response                                                  *)
(***************************************************************************)
\* for block in response.content: if hasattr(block, "text"): return block.text
AnthropicExtract(r) == IF TextsOf(r.parts) = <<>> THEN <<>> ELSE TextsOf(r.parts)[1]

\* message.content is the one string the vendor sends
OpenAIExtract(r) == IF ~r.present THEN <<>> ELSE Concat(TextsOf(r.parts))

ResponsesExtract(r) == Concat(TextsOf(r.parts))

GeminiExtract(r) == IF ~r.present \/ r.parts = <<>> THEN <<>> ELSE Concat(TextsOf(r.parts))

VertexExtract(r) == IF ~r.present \/ r.parts = <<>> THEN <<>> ELSE Concat(TextsOf(r.parts))

extract_final_response(p, r) ==
    CASE p = "anthropic" -> AnthropicExtract(r)
      [] p = "openai" -> OpenAIExtract(r)
      [] p = "openai_responses" -> ResponsesExtract(r)
      [] p = "gemini" -> GeminiExtract(r)
      [] p = "vertex" -> VertexExtract(r)

(***************************************************************************)
(* Messages of the conversation.  keys are the keys of the dict; ctype     *)
(* tells a string content ("str", in text) from a list content ("list",    *)
(* in items); calls holds the tool_calls / function_calls entry.           *)
(***************************************************************************)
NoContent == <<"(no content)">>
Item(type, text, id, name, content) ==
    [type |-> type, text |-> text, id |-> id, name |-> name, content |-> content]

Message(role, keys, ctype, text, items, calls) ==
    [role |-> role, keys |-> keys, ctype |-> ctype, text |-> text, items |-> items,
     calls |-> calls]

UserText(text) == Message("user", {"role", "content"}, "str", text, <<>>, <<>>)

\* As if each result were sent on its own and only the last one survived.
ToolResultsMessage_LastOnly(tool_results) ==
    Message("user", {"role", "content"}, "list", <<>>,
            <<tool_results[Len(tool_results)]>>, <<>>)

ToolResultsMessage(tool_results) ==
    Message("user", {"role", "content"}, "list", <<>>, tool_results, <<>>)

(***************************************************************************)
(* format_tool_result                                                      *)
(***************************************************************************)
NoName == "(no tool_name)"

AnthropicFormatToolResult(id, name, result) == Item("tool_result", <<>>, id, NoName, result)
OpenAIFormatToolResult(id, name, result) == Item("tool_result", <<>>, id, name, result)
ResponsesFormatToolResult(id, name, result) == Item("tool_result", <<>>, id, name, result)
GeminiFormatToolResult(id, name, result) == Item("tool_result", <<>>, id, name, result)
VertexFormatToolResult(id, name, result) == Item("tool_result", <<>>, id, name, result)

format_tool_result(p, id, name, result) ==
    CASE p = "anthropic" -> AnthropicFormatToolResult(id, name, result)
      [] p = "openai" -> OpenAIFormatToolResult(id, name, result)
      [] p = "openai_responses" -> ResponsesFormatToolResult(id, name, result)
      [] p = "gemini" -> GeminiFormatToolResult(id, name, result)
      [] p = "vertex" -> VertexFormatToolResult(id, name, result)

(***************************************************************************)
(* format_assistant_message                                                *)
(***************************************************************************)
\* {"role": "assistant", "content": response.content}: the blocks themselves
AnthropicFormatAssistant(r) ==
    Message("assistant", {"role", "content"}, "list", <<>>,
        [i \in 1..Len(r.parts) |->
            IF IsCall(r.parts[i])
            THEN Item("tool_use", <<>>, r.parts[i].id, r.parts[i].name, NoContent)
            ELSE Item("text", r.parts[i].text, NoId, "", NoContent)],
        <<>>)

OpenAIFormatAssistant(r) ==
    IF ~r.present THEN Message("assistant", {"role", "content"}, "str", <<>>, <<>>, <<>>)
    ELSE LET content == Concat(TextsOf(r.parts))
             calls == RawCallsOf(r.parts)
         IN  Message("assistant",
                 {"role"} \cup (IF content # <<>> THEN {"content"} ELSE {})
                          \cup (IF calls # <<>> THEN {"tool_calls"} ELSE {}),
                 IF content # <<>> THEN "str" ELSE "none", content, <<>>, calls)

ResponsesFormatAssistant(r) ==
    LET content == Concat(TextsOf(r.parts))
        calls == RawCallsOf(r.parts)
    IN  Message("assistant",
            {"role"} \cup (IF TextsOf(r.parts) # <<>> THEN {"content"} ELSE {})
                     \cup (IF calls # <<>> THEN {"function_calls"} ELSE {}),
            IF TextsOf(r.parts) # <<>> THEN "str" ELSE "none", content, <<>>, calls)

GeminiPartDicts(parts) ==
    [i \in 1..Len(parts) |->
        IF IsCall(parts[i])
        THEN Item("function_call", <<>>, NoId, parts[i].name, NoContent)
        ELSE Item("text", parts[i].text, NoId, "", NoContent)]

GeminiFormatAssistant(r) ==
    IF ~r.present \/ r.parts = <<>>
    THEN Message("model", {"role", "content"}, "str", <<>>, <<>>, <<>>)
    ELSE Message("model", {"role", "content"}, "list", <<>>, GeminiPartDicts(r.parts), <<>>)

VertexFormatAssistant(r) ==
    IF ~r.present \/ r.parts = <<>>
    THEN Message("model", {"role", "content"}, "str", <<>>, <<>>, <<>>)
    ELSE Message("model", {"role", "content"}, "list", <<>>, GeminiPartDicts(r.parts), <<>>)

\* As if the model's turn were recorded as one more user message.
format_assistant_message_AsUser(p, r) ==
    [AnthropicFormatAssistant(r) EXCEPT !.role = "user"]

format_assistant_message(p, r) ==
    CASE p = "anthropic" -> AnthropicFormatAssistant(r)
      [] p = "openai" -> OpenAIFormatAssistant(r)
      [] p = "openai_responses" -> ResponsesFormatAssistant(r)
      [] p = "gemini" -> GeminiFormatAssistant(r)
      [] p = "vertex" -> VertexFormatAssistant(r)

(***************************************************************************)
(* The vendor-native request each adapter builds from the conversation in  *)
(* complete_with_tools.  An entry is one message / input item / content;   *)
(* calls are the tool calls it carries and results the tool results, each  *)
(* with the call id it is sent under (NoId when the entry has no id).      *)
(***************************************************************************)
Entry(kind, role, text, calls, results) ==
    [kind |-> kind, role |-> role, text |-> text, calls |-> calls, results |-> results]

RECURSIVE Flatten(_)
Flatten(seqs) == IF seqs = <<>> THEN <<>> ELSE Head(seqs) \o Flatten(Tail(seqs))

IsToolUse(item) == item.type = "tool_use"
IsToolResult(item) == item.type = "tool_result"

IdName(item) == [id |-> item.id, name |-> item.name]
IdNames(items) == [i \in 1..Len(items) |-> IdName(items[i])]

\* messages=messages: the conversation is sent as it is.
AnthropicBuildRequest(msgs) ==
    [i \in 1..Len(msgs) |->
        Entry("message", msgs[i].role, msgs[i].text,
              IdNames(SelectSeq(msgs[i].items, IsToolUse)),
              IdNames(SelectSeq(msgs[i].items, IsToolResult)))]

\* _build_messages
OpenAIEntries(msg) ==
    IF msg.role = "system" THEN <<>>
    ELSE IF msg.role = "assistant" /\ "tool_calls" \in msg.keys
    THEN <<Entry("message", "assistant", msg.text, msg.calls, <<>>)>>
    ELSE IF msg.ctype = "str"
    THEN <<Entry("message", msg.role, msg.text, <<>>, <<>>)>>
    ELSE IF msg.ctype = "list"
    THEN LET found == SelectSeq(msg.items, IsToolResult)
         IN  [i \in 1..Len(found) |->
                 Entry("message", "tool", found[i].content, <<>>,
                       <<[id |-> found[i].id,
                          name |-> IF found[i].name = NoName THEN "" ELSE found[i].name]>>)]
    ELSE <<>>

OpenAIBuildRequest(msgs) ==
    <<Entry("message", "system", <<"SYSTEM_PROMPT">>, <<>>, <<>>)>>
        \o Flatten([i \in 1..Len(msgs) |-> OpenAIEntries(msgs[i])])

\* _build_input
ResponsesEntries(msg) ==
    IF msg.role = "system" THEN <<>>
    ELSE IF msg.role = "user" /\ msg.ctype = "str"
    THEN <<Entry("message", "user", msg.text, <<>>, <<>>)>>
    ELSE IF msg.role = "assistant" /\ "function_calls" \in msg.keys
    THEN [i \in 1..Len(msg.calls) |->
             Entry("function_call", "", <<>>, <<msg.calls[i]>>, <<>>)]
    ELSE IF msg.ctype = "list"
    THEN LET found == SelectSeq(msg.items, IsToolResult)
         IN  [i \in 1..Len(found) |->
                 Entry("function_call_output", "", found[i].content, <<>>,
                       <<[id |-> found[i].id, name |-> ""]>>)]
    ELSE <<>>

ResponsesBuildRequest(msgs) == Flatten([i \in 1..Len(msgs) |-> ResponsesEntries(msgs[i])])

\* _build_contents: of a list content only the tool_result items become parts
\* (function responses, sent under the tool name, without an id).
FunctionResponses(items) ==
    LET found == SelectSeq(items, IsToolResult)
    IN  [i \in 1..Len(found) |->
            [id |-> NoId, name |-> IF found[i].name = NoName THEN "unknown" ELSE found[i].name]]

GeminiEntries(msg) ==
    LET role == IF msg.role = "assistant" THEN "model" ELSE msg.role
    IN  IF msg.role = "system" THEN <<>>
        ELSE IF msg.ctype = "str"
        THEN <<Entry("content", role, msg.text, <<>>, <<>>)>>
        ELSE IF msg.ctype = "list" /\ FunctionResponses(msg.items) # <<>>
        THEN <<Entry("content", role, <<>>, <<>>, FunctionResponses(msg.items))>>
        ELSE <<>>

GeminiBuildRequest(msgs) == Flatten([i \in 1..Len(msgs) |-> GeminiEntries(msgs[i])])

VertexEntries(msg) ==
    LET role == IF msg.role = "assistant" THEN "model" ELSE msg.role
    IN  IF msg.role = "system" THEN <<>>
        ELSE IF msg.ctype = "str"
        THEN <<Entry("content", role, msg.text, <<>>, <<>>)>>
        ELSE IF msg.ctype = "list" /\ FunctionResponses(msg.items) # <<>>
        THEN <<Entry("content", role, <<>>, <<>>, FunctionResponses(msg.items))>>
        ELSE <<>>

VertexBuildRequest(msgs) == Flatten([i \in 1..Len(msgs) |-> VertexEntries(msgs[i])])

BuildRequest(p, msgs) ==
    CASE p = "anthropic" -> AnthropicBuildRequest(msgs)
      [] p = "openai" -> OpenAIBuildRequest(msgs)
      [] p = "openai_responses" -> ResponsesBuildRequest(msgs)
      [] p = "gemini" -> GeminiBuildRequest(msgs)
      [] p = "vertex" -> VertexBuildRequest(msgs)

(***************************************************************************)
(* get_usage.  The value is the returned dict (a field of it may be None)  *)
(* or the AttributeError the attribute access raises.                      *)
(***************************************************************************)
UsageDict(input_none, i, output_none, o) ==
    [raises |-> FALSE, input_none |-> input_none, output_none |-> output_none,
     input_tokens |-> i, output_tokens |-> o]

UsageRaises ==
    [raises |-> TRUE, input_none |-> FALSE, output_none |-> FALSE,
     input_tokens |-> 0, output_tokens |-> 0]

\* x or 0
OrZero(state, n) == IF state = "value" THEN n ELSE 0

\* response.usage.input_tokens, response.usage.output_tokens
AnthropicGetUsage(r) ==
    LET u == r.usage
    IN  IF ~u.section \/ u.input = "absent" \/ u.output = "absent" THEN UsageRaises
        ELSE UsageDict(u.input = "none", OrZero(u.input, u.input_tokens),
                       u.output = "none", OrZero(u.output, u.output_tokens))

\* hasattr(response, 'usage') and response.usage; then usage.<field> or 0
OpenAIGetUsage(r) ==
    LET u == r.usage
    IN  IF ~u.section THEN UsageDict(FALSE, 0, FALSE, 0)
        ELSE IF u.input = "absent" \/ u.output = "absent" THEN UsageRaises
        ELSE UsageDict(FALSE, OrZero(u.input, u.input_tokens),
                       FALSE, OrZero(u.output, u.output_tokens))

ResponsesGetUsage(r) ==
    LET u == r.usage
    IN  IF ~u.section THEN UsageDict(FALSE, 0, FALSE, 0)
        ELSE IF u.input = "absent" \/ u.output = "absent" THEN UsageRaises
        ELSE UsageDict(FALSE, OrZero(u.input, u.input_tokens),
                       FALSE, OrZero(u.output, u.output_tokens))

\* getattr(response.usage_metadata, <field>, 0) or 0
GeminiGetUsage(r) ==
    LET u == r.usage
    IN  IF ~u.section THEN UsageDict(FALSE, 0, FALSE, 0)
        ELSE UsageDict(FALSE, OrZero(u.input, u.input_tokens),
                       FALSE, OrZero(u.output, u.output_tokens))

VertexGetUsage(r) ==
    LET u == r.usage
    IN  IF ~u.section THEN UsageDict(FALSE, 0, FALSE, 0)
        ELSE UsageDict(FALSE, OrZero(u.input, u.input_tokens),
                       FALSE, OrZero(u.output, u.output_tokens))

get_usage(p, r) ==
    CASE p = "anthropic" -> AnthropicGetUsage(r)
      [] p = "openai" -> OpenAIGetUsage(r)
      [] p = "openai_responses" -> ResponsesGetUsage(r)
      [] p = "gemini" -> GeminiGetUsage(r)
      [] p = "vertex" -> VertexGetUsage(r)

\* total += usage[...]: adding None raises a TypeError.
Accumulate_Overwrite(total, n) == n
Accumulate(total, n) == total + n

\* The usage lines of the loop raise: get_usage raised, or a count is None.
UsageFails(p, r) ==
    LET u == get_usage(p, r) IN u.raises \/ u.input_none \/ u.output_none

(***************************************************************************)
(* The caller's arguments raw and meta_fields, and _wrap_response with     *)
(* _build_meta.  meta_fields is None, True or a list of field names.       *)
(***************************************************************************)
MetaNone == [kind |-> "None", fields |-> {}]
MetaTrue == [kind |-> "True", fields |-> {}]
MetaList(fields) == [kind |-> "list", fields |-> fields]

MetaFieldsArgs ==
    {MetaNone, MetaTrue, MetaList({}), MetaList({"usage"}),
     MetaList({"cost", "iterations"}), MetaList({"bogus"})}

\* if meta_fields:
Truthy(mf) == mf.kind = "True" \/ (mf.kind = "list" /\ mf.fields # {})

AllMetaFields ==
    {"model", "provider", "iterations", "usage", "cost", "latency_ms", "tools", "logs"}

\* Prices are in cents per million tokens, costs in millionths of a dollar
\* (the 6th decimal place).
Price(i, o) == [input |-> i, output |-> o]

MODELS ==
    [name \in {"claude-haiku-4-5", "claude-sonnet-4", "claude-opus-4", "gpt-5-mini",
               "gpt-5-nano", "gemini-3-flash-preview"} |->
        CASE name = "claude-haiku-4-5" -> [provider |-> "anthropic", pricing |-> Price(100, 500)]
          [] name = "claude-sonnet-4" -> [provider |-> "anthropic", pricing |-> Price(300, 1500)]
          [] name = "claude-opus-4" -> [provider |-> "anthropic", pricing |-> Price(1500, 7500)]
          [] name = "gpt-5-mini" -> [provider |-> "openai", pricing |-> Price(25, 200)]
          [] name = "gpt-5-nano" -> [provider |-> "openai", pricing |-> Price(5, 40)]
          [] name = "gemini-3-flash-preview" ->
                 [provider |-> "gemini", pricing |-> Price(50, 300)]]

DEFAULT_PRICING == Price(100, 500)

\* The model each adapter uses when neither the model argument nor the
\* environment names one.
DefaultModel(p) ==
    CASE p = "anthropic" -> "claude-haiku-4-5"
      [] p = "openai" -> "gpt-5-mini"
      [] p = "openai_responses" -> "gpt-5-mini"
      [] p = "gemini" -> "gemini-3-flash-preview"
      [] p = "vertex" -> "gemini-3-flash-preview"

\* provider.pricing: LLMProvider.pricing, overridden by OpenAIProvider.
pricing(p, model) ==
    IF p = "openai" THEN Price(25, 200)
    ELSE IF model \in DOMAIN MODELS THEN MODELS[model].pricing
    ELSE DEFAULT_PRICING

\* round(x, 6) of the cost num / den millionths of a dollar: the nearest
\* millionth.  round works on the binary float nearest to x, so halfway between
\* two millionths either of them can come out: the value is the set of outcomes.
Round6_Floor(num, den) == {num \div den}

Round6(num, den) ==
    LET q == num \div den
        r == num % den
    IN  IF 2 * r < den THEN {q}
        ELSE IF 2 * r > den THEN {q + 1}
        ELSE {q, q + 1}

\* (tokens / 1_000_000) * price dollars is tokens * cents / 100 millionths.
\* The costs the three round calls can yield.
Costs(input_tokens, output_tokens, price) ==
    {[input |-> i, output |-> o, total |-> t] :
        i \in Round6(input_tokens * price.input, 100),
        o \in Round6(output_tokens * price.output, 100),
        t \in Round6(input_tokens * price.input + output_tokens * price.output, 100)}

NoCost == [input |-> 0, output |-> 0, total |-> 0]
NoUsage == [input_tokens |-> 0, output_tokens |-> 0]

\* meta["provider"]: MODELS.get(self.provider.model_name, {}).get("provider", "unknown")
MetaProvider(model_name) ==
    IF model_name \in DOMAIN MODELS THEN MODELS[model_name].provider ELSE "unknown"

\* _build_meta; the value of a field that was not asked for is a placeholder.
build_meta(p, mf, input_tokens, output_tokens, iterations, used, cost) ==
    LET all_fields == mf.kind = "True"
        fields == IF mf.kind = "list" THEN mf.fields ELSE {}
        Asked(f) == all_fields \/ f \in fields
    IN  [keys |-> {f \in AllMetaFields : Asked(f)},
         model |-> IF Asked("model") THEN DefaultModel(p) ELSE "",
         provider |-> IF Asked("provider") THEN MetaProvider(DefaultModel(p)) ELSE "",
         iterations |-> IF Asked("iterations") THEN iterations ELSE 0,
         usage |-> IF Asked("usage")
                   THEN [input_tokens |-> input_tokens, output_tokens |-> output_tokens]
                   ELSE NoUsage,
         cost |-> IF Asked("cost") THEN cost ELSE NoCost,
         tools |-> IF Asked("tools") THEN used ELSE <<>>]

NoMeta == build_meta("anthropic", MetaNone, 0, 0, 0, <<>>, NoCost)

\* _wrap_response: keys are the top-level keys of the returned object; cost is
\* what the round calls of _build_meta yield.
wrap_response_DataOnly(p, data, mf, raw, input_tokens, output_tokens, iterations, used, cost) ==
    [keys |-> {"data"}, data |-> data, meta |-> NoMeta]

wrap_response(p, data, mf, raw, input_tokens, output_tokens, iterations, used, cost) ==
    IF raw THEN [keys |-> data.keys, data |-> data, meta |-> NoMeta]
    ELSE IF Truthy(mf)
    THEN [keys |-> {"data", "meta"}, data |-> data,
          meta |-> build_meta(p, mf, input_tokens, output_tokens, iterations, used, cost)]
    ELSE [keys |-> {"data"}, data |-> data, meta |-> NoMeta]

(***************************************************************************)
(* get_provider (providers/factory.py) and the adapters' constructors.     *)
(* NoneArg stands for Python's None; "" is the empty string.               *)
(***************************************************************************)
NoneArg == "None"

LLM_PROVIDER == "anthropic"

\* The providers dict of get_provider: name -> adapter class.
providers ==
    [name \in {"anthropic", "gemini", "vertex", "openai"} |->
        CASE name = "anthropic" -> "AnthropicProvider"
          [] name = "gemini" -> "GeminiProvider"
          [] name = "vertex" -> "VertexProvider"
          [] name = "openai" -> "OpenAIProvider"]

\* list(providers.keys()), in the order of the dict.
available == <<"anthropic", "gemini", "vertex", "openai">>

\* MODEL_MAP of vertex_provider.py: model type -> model name.
VertexModelTypes == {"gemini"}

ProviderNameArgs ==
    {NoneArg, "", "anthropic", "gemini", "vertex", "openai", "openai_responses", "mistral"}
ModelArgs ==
    {NoneArg, "", "claude-sonnet-4", "gpt-5-mini", "gemini-3-flash-preview", "my-model"}
ModelTypeArgs == {NoneArg, "gemini", "palm"}
ApiModes == {"completions", "responses"}

\* not x, for an argument that is a string or None
Falsy(x) == x = NoneArg \/ x = ""

Raised(error, name, listed) ==
    [outcome |-> "raised", error |-> error, name |-> name, listed |-> listed,
     class |-> "", model_type |-> NoneArg, requested_model |-> NoneArg, model_name |-> ""]

Adapter(class, model_type, model, model_name) ==
    [outcome |-> "adapter", error |-> "", name |-> "", listed |-> <<>>,
     class |-> class, model_type |-> model_type, requested_model |-> model,
     model_name |-> model_name]

\* The adapter of the loop model that a class is.
AdapterOf(class) ==
    CASE class = "AnthropicProvider" -> "anthropic"
      [] class = "OpenAIProvider" -> "openai"
      [] class = "OpenAIResponsesProvider" -> "openai_responses"
      [] class = "GeminiProvider" -> "gemini"
      [] class = "VertexProvider" -> "vertex"

\* The classes whose constructor needs the vendor's key in the environment.
NeedsKey(class) ==
    class \in {"GeminiProvider", "VertexProvider", "OpenAIProvider", "OpenAIResponsesProvider"}

\* <Class>(model_type=model_type, model=model), the environment naming no model.
Construct(class, model_type, model, has_key) ==
    IF NeedsKey(class) /\ ~has_key
    THEN Raised("missing credential", "", <<>>)
    ELSE IF /\ class = "VertexProvider"
            /\ Falsy(model)
            /\ (IF Falsy(model_type) THEN "gemini" ELSE model_type) \notin VertexModelTypes
    THEN Raised("Unknown model type", model_type, <<"gemini">>)
    ELSE Adapter(class, model_type, model,
                 IF Falsy(model) THEN DefaultModel(AdapterOf(class)) ELSE model)

\* The name get_provider looks up in providers.
ResolvedName(provider_name, model) ==
    LET inferred ==
            IF provider_name = NoneArg /\ ~Falsy(model)
            THEN IF model \in DOMAIN MODELS THEN MODELS[model].provider ELSE NoneArg
            ELSE provider_name
    IN  IF Falsy(inferred) THEN LLM_PROVIDER ELSE inferred

get_provider_DefaultOnUnknown(provider_name, model_type, model, api_mode, has_key) ==
    LET name == ResolvedName(provider_name, model)
    IN  IF name \notin DOMAIN providers
        THEN Construct(providers[LLM_PROVIDER], model_type, model, has_key)
        ELSE Construct(providers[name], model_type, model, has_key)

get_provider(provider_name, model_type, model, api_mode, has_key) ==
    LET name == ResolvedName(provider_name, model)
    IN  IF name \notin DOMAIN providers
        THEN Raised("Unknown provider", name, available)
        ELSE IF name = "openai" /\ api_mode = "responses"
        THEN Construct("OpenAIResponsesProvider", model_type, model, has_key)
        ELSE Construct(providers[name], model_type, model, has_key)

(***************************************************************************)
(* _execute_tool.  outcome is what the catalog function does when it is    *)
(* awaited: "returns" or "raises".                                         *)
(***************************************************************************)
ExceptionMessage == "connection refused"

ToolOutput(name) == <<"output of ", name>>

execute_tool_BareMessage(tool_call, outcome) ==
    IF tool_call.name \notin TOOL_FUNCTIONS
    THEN <<"Error: Unknown tool '", tool_call.name, "'">>
    ELSE IF outcome = "returns" THEN ToolOutput(tool_call.name)
    ELSE <<ExceptionMessage>>

execute_tool_UnnamedUnknown(tool_call, outcome) ==
    IF tool_call.name \notin TOOL_FUNCTIONS
    THEN <<"Error: Unknown tool">>
    ELSE IF outcome = "returns" THEN ToolOutput(tool_call.name)
    ELSE <<"Error executing ", tool_call.name, ": ", ExceptionMessage>>

execute_tool(tool_call, outcome) ==
    IF tool_call.name \notin TOOL_FUNCTIONS
    THEN <<"Error: Unknown tool '", tool_call.name, "'">>
    ELSE IF outcome = "returns" THEN ToolOutput(tool_call.name)
    ELSE <<"Error executing ", tool_call.name, ": ", ExceptionMessage>>

\* Whether _execute_tool awaits a catalog function for this call.
Invokes(tool_call) == tool_call.name \in TOOL_FUNCTIONS

VARIABLES
    provider,            \* self.provider: which adapter get_provider built
    pc,                  \* where process_request is
    iteration,
    messages,
    request,             \* the vendor-native request of the last complete_with_tools call
    response,            \* the last vendor response
    tool_calls,          \* parse_tool_calls(response)
    tool_results,
    next_call,           \* index in tool_calls of the call the for loop handles next
    tools_used,
    total_input_tokens,
    total_output_tokens,
    result,              \* the local result: the recovered JSON or the error payload
    returned,            \* what process_request returns, with the arguments raw and
                         \* meta_fields it was called with (they are read at the return)
    vendor_calls,        \* history: complete_with_tools calls issued
    invoked,             \* history: the catalog functions awaited, in order
    responses_seen,      \* history: per response whose usage was read, is_complete, the number
                         \* of tool calls and the usage
    vendor_error,        \* history: complete_with_tools raised
    usage_error,         \* history: the usage lines of the loop raised
    special_turn,        \* the turn in which vendor and tools were unconstrained (0: none yet)
    tool_raised,         \* history: the calls (turn, index) whose function raised
    jtext,               \* _parse_json_response: the text argument
    jpc,                 \* _parse_json_response: the strategy about to run
    jtried,              \* the strategies run so far, in order
    jresult,             \* the value returned (NoResult until it returns)
    factory_args,        \* get_provider: the arguments and the environment of the call
    factory_pc,
    factory_result,      \* the adapter get_provider returns, or the error it raises
    invocations,         \* two process_request coroutines in one process: their frames
    stepper,             \* history: the invocation that ran last (0: none yet)
    module_state,        \* the module-level objects TOOLS, SYSTEM_PROMPT and TOOL_FUNCTIONS
    declared             \* the tools and system_prompt arguments of the last vendor call

loopvars ==
    <<provider, pc, iteration, messages, request, response, tool_calls, tool_results, next_call,
      tools_used, total_input_tokens, total_output_tokens, result, returned, vendor_calls,
      invoked,
      responses_seen, vendor_error, usage_error, special_turn, tool_raised>>

jvars == <<jtext, jpc, jtried, jresult>>

fvars == <<factory_args, factory_pc, factory_result>>

pvars == <<invocations, stepper>>

dvars == <<module_state, declared>>

vars ==
    <<provider, pc, iteration, messages, request, response, tool_calls, tool_results, next_call,
      tools_used, total_input_tokens, total_output_tokens, result, returned, vendor_calls,
      invoked,
      responses_seen, vendor_error, usage_error, special_turn, tool_raised, jtext, jpc, jtried, jresult,
      factory_args, factory_pc, factory_result, invocations, stepper,
      module_state, declared>>

NoReturn ==
    [raw |-> FALSE, meta_fields |-> MetaNone,
     value |-> [keys |-> {}, data |-> NoResult, meta |-> NoMeta]]

NoResponse == [signal |-> "none", present |-> FALSE, parts |-> <<>>, usage |-> Usage(0, 0)]

\* The state of process_request before it is called.
LoopIdle ==
    /\ provider = "anthropic"
    /\ pc = "idle"
    /\ iteration = 0
    /\ messages = <<>>
    /\ request = <<>>
    /\ response = NoResponse
    /\ tool_calls = <<>>
    /\ tool_results = <<>>
    /\ next_call = 0
    /\ tools_used = <<>>
    /\ total_input_tokens = 0
    /\ total_output_tokens = 0
    /\ result = NoResult
    /\ returned = NoReturn
    /\ vendor_calls = 0
    /\ invoked = <<>>
    /\ responses_seen = <<>>
    /\ vendor_error = FALSE
    /\ usage_error = FALSE
    /\ special_turn = 0
    /\ tool_raised = {}

NoFactoryArgs ==
    [provider_name |-> NoneArg, model_type |-> NoneArg, model |-> NoneArg,
     api_mode |-> "completions", has_key |-> TRUE]

NoFactoryResult == Raised("", "", <<>>)

FactoryIdle ==
    /\ factory_args = NoFactoryArgs
    /\ factory_pc = "idle"
    /\ factory_result = NoFactoryResult

\* The module-level objects as the import leaves them; no vendor call yet.
ModuleIdle ==
    /\ module_state = ModuleState
    /\ declared = NoCallArguments

PairIdle ==
    /\ invocations = <<>>
    /\ stepper = 0

JsonIdle ==
    /\ jtext = <<>>
    /\ jpc = "idle"
    /\ jtried = <<>>
    /\ jresult = NoResult

(***************************************************************************)
(* process_request.  The vendor and the tools are the environment.  In one *)
(* turn of an invocation (any turn) the vendor may answer with any         *)
(* response of Responses and every awaited tool may return or raise; in    *)
(* the other turns the vendor sends BaseResponse or FinalResponse and the  *)
(* tool returns.                                                           *)
(* complete_with_tools may raise in any turn.                              *)
(***************************************************************************)
Init ==
    /\ provider \in Providers
    /\ pc = "loop"
    /\ iteration = 0
    /\ messages = <<UserText(<<WORD>>)>>
    /\ request = <<>>
    /\ response = NoResponse
    /\ tool_calls = <<>>
    /\ tool_results = <<>>
    /\ next_call = 0
    /\ tools_used = <<>>
    /\ total_input_tokens = 0
    /\ total_output_tokens = 0
    /\ result = NoResult
    /\ returned = NoReturn
    /\ vendor_calls = 0
    /\ invoked = <<>>
    /\ responses_seen = <<>>
    /\ vendor_error = FALSE
    /\ usage_error = FALSE
    /\ special_turn = 0
    /\ tool_raised = {}
    /\ JsonIdle
    /\ FactoryIdle
    /\ PairIdle
    /\ ModuleIdle

\* while iteration < max_iterations
WhileCondition_Inclusive(it) == it <= max_iterations


WhileCondition(it) == it < max_iterations

\* The arguments raw and meta_fields a caller can pass.
AllCallerArgs == [raw : BOOLEAN, meta_fields : MetaFieldsArgs]

\* The ones the loop is run with (with raw=True meta_fields is never read);
\* WrapSpec runs the return statement with all of them.
CallerArgs ==
    {[raw |-> TRUE, meta_fields |-> MetaNone]}
    \cup {[raw |-> FALSE, meta_fields |-> mf] : mf \in {MetaNone, MetaList({"usage"})}}

\* A return statement of process_request, called with one of callers.
ReturnWith(data, callers) ==
    /\ result' = data
    /\ pc' = "returned"
    /\ \E args \in callers,
          cost \in Costs(total_input_tokens', total_output_tokens',
                         pricing(provider, DefaultModel(provider))) :
          returned' = [raw |-> args.raw, meta_fields |-> args.meta_fields,
                       value |-> wrap_response(provider, data, args.meta_fields, args.raw,
                                               total_input_tokens', total_output_tokens',
                                               iteration, tools_used, cost)]

Return(data) == ReturnWith(data, CallerArgs)

\* The loop test; then iteration += 1 and the call of complete_with_tools, or the
\* code after the loop.
LoopHead ==
    /\ pc = "loop"
    /\ UNCHANGED <<total_input_tokens, total_output_tokens>>
    /\ IF WhileCondition(iteration)
       THEN /\ iteration' = iteration + 1
            /\ vendor_calls' = vendor_calls + 1
            /\ request' = BuildRequest(provider, messages)
            /\ declared' = CallArguments(module_state)
            /\ module_state' = AfterConvertTools(provider, module_state)
            /\ pc' = "vendor"
            /\ UNCHANGED <<result, returned>>
       ELSE /\ Return(MaxIterationsPayload)
            /\ UNCHANGED <<iteration, vendor_calls, request>>
            /\ UNCHANGED dvars
    /\ UNCHANGED <<provider, messages, response, tool_calls, tool_results, next_call,
                   tools_used, invoked, responses_seen, vendor_error, usage_error,
                   special_turn, tool_raised>>
    /\ UNCHANGED jvars
    /\ UNCHANGED fvars
    /\ UNCHANGED pvars

\* What the loop does with a response: the completion check comes first, then
\* the parse of the tool calls.
Decision_ToolCallsFirst(p, r) ==
    IF parse_tool_calls(p, r) # <<>> THEN "tool calls"
    ELSE IF is_complete(p, r) THEN "complete"
    ELSE "no tool calls"

\* As if a response that is neither complete nor calls a tool went on to the
\* tool loop.
Decision_NeverDegenerate(p, r) ==
    IF is_complete(p, r) THEN "complete" ELSE "tool calls"

Decision(p, r) ==
    IF is_complete(p, r) THEN "complete"
    ELSE IF parse_tool_calls(p, r) = <<>> THEN "no tool calls"
    ELSE "tool calls"

\* From the response to the first tool call: usage, the completion check, the
\* parse of the tool calls and the assistant message.
Receive(r) ==
    /\ response' = r
    /\ responses_seen' =
           IF UsageFails(provider, r) THEN responses_seen
           ELSE Append(responses_seen,
                       [complete |-> is_complete(provider, r),
                        calls |-> Len(parse_tool_calls(provider, r)),
                        usage |-> get_usage(provider, r)])
    /\ usage_error' = UsageFails(provider, r)
    /\ LET u == get_usage(provider, r)
       IN  /\ total_input_tokens' =
                  IF u.raises \/ u.input_none THEN total_input_tokens
                  ELSE Accumulate(total_input_tokens, u.input_tokens)
           /\ total_output_tokens' =
                  IF UsageFails(provider, r) THEN total_output_tokens
                  ELSE Accumulate(total_output_tokens, u.output_tokens)
    /\ IF UsageFails(provider, r)
       THEN /\ pc' = "raised"
            /\ UNCHANGED <<messages, tool_calls, tool_results, next_call, result, returned>>
       ELSE IF Decision(provider, r) \in {"complete", "no tool calls"}
       THEN /\ Return(parse_json_response(extract_final_response(provider, r)))
            /\ UNCHANGED <<messages, tool_calls, tool_results, next_call>>
       ELSE /\ messages' = Append(messages, format_assistant_message(provider, r))
            /\ tool_calls' = parse_tool_calls(provider, r)
            /\ tool_results' = <<>>
            /\ next_call' = 1
            /\ pc' = "tools"
            /\ UNCHANGED <<result, returned>>

\* complete_with_tools returns.
VendorResponds ==
    /\ pc = "vendor"
    /\ \E r \in Responses \cup OddUsageResponses \cup PlainResponses, special \in BOOLEAN :
          /\ special => special_turn = 0
          /\ ~special => r \in PlainResponses
          /\ special_turn' = IF special THEN iteration ELSE special_turn
          /\ Receive(r)
    /\ UNCHANGED <<provider, iteration, request, tools_used, vendor_calls, invoked, vendor_error,
                   tool_raised>>
    /\ UNCHANGED jvars
    /\ UNCHANGED fvars
    /\ UNCHANGED pvars
    /\ UNCHANGED dvars

\* complete_with_tools raises: nothing in process_request catches it.
VendorRaises_Retry ==
    /\ pc = "vendor"
    /\ vendor_error' = TRUE
    /\ pc' = "loop"
    /\ UNCHANGED <<provider, iteration, messages, request, response, tool_calls, tool_results,
                   next_call, tools_used, total_input_tokens, total_output_tokens, result,
                   returned, vendor_calls, invoked, responses_seen, usage_error, special_turn,
                   tool_raised>>
    /\ UNCHANGED jvars
    /\ UNCHANGED fvars
    /\ UNCHANGED pvars
    /\ UNCHANGED dvars

VendorRaises ==
    /\ pc = "vendor"
    /\ vendor_error' = TRUE
    /\ pc' = "raised"
    /\ UNCHANGED <<provider, iteration, messages, request, response, tool_calls, tool_results,
                   next_call, tools_used, total_input_tokens, total_output_tokens, result,
                   returned, vendor_calls, invoked, responses_seen, usage_error, special_turn,
                   tool_raised>>
    /\ UNCHANGED jvars
    /\ UNCHANGED fvars
    /\ UNCHANGED pvars
    /\ UNCHANGED dvars

\* tools_used.append({"name": ..., "input": ..., "iteration": iteration})
TraceEntry_ZeroBased(tool_call, it) ==
    [name |-> tool_call.name, input |-> tool_call.input, iteration |-> it - 1]

TraceEntry(tool_call, it) ==
    [name |-> tool_call.name, input |-> tool_call.input, iteration |-> it]

Outcomes(tool_call) ==
    IF ~Invokes(tool_call) THEN {"not awaited"}
    ELSE IF iteration = special_turn THEN {"returns", "raises"}
    ELSE {"returns"}

\* tool_results.append(self.provider.format_tool_result(id, name, tool_result))
AppendToolResult_SkipUnknown(results, tool_call, content) ==
    IF tool_call.name \notin TOOL_FUNCTIONS THEN results
    ELSE Append(results, format_tool_result(provider, tool_call.id, tool_call.name, content))

AppendToolResult(results, tool_call, content) ==
    Append(results, format_tool_result(provider, tool_call.id, tool_call.name, content))

\* One pass of the for loop over tool_calls; after the last one the results
\* message is appended and control is back at the loop test.
ExecuteTool ==
    /\ pc = "tools"
    /\ LET tool_call == tool_calls[next_call]
       IN  \E outcome \in Outcomes(tool_call) :
              /\ tools_used' =
                     Append(tools_used, TraceEntry(tool_call, iteration))
              /\ invoked' = IF Invokes(tool_call) THEN Append(invoked, tool_call.name)
                            ELSE invoked
              /\ tool_raised' = IF outcome = "raises"
                                THEN tool_raised \cup {<<iteration, next_call>>}
                                ELSE tool_raised
              /\ tool_results' =
                     AppendToolResult(tool_results, tool_call, execute_tool(tool_call, outcome))
    /\ IF next_call = Len(tool_calls)
       THEN /\ messages' = Append(messages, ToolResultsMessage(tool_results'))
            /\ pc' = "loop"
       ELSE /\ UNCHANGED <<messages, pc>>
    /\ next_call' = next_call + 1
    /\ UNCHANGED <<provider, iteration, request, response, tool_calls, total_input_tokens,
                   total_output_tokens, result, returned, vendor_calls, responses_seen,
                   vendor_error, usage_error,
                   special_turn>>
    /\ UNCHANGED jvars
    /\ UNCHANGED fvars
    /\ UNCHANGED pvars
    /\ UNCHANGED dvars

Next == LoopHead \/ VendorResponds \/ VendorRaises \/ ExecuteTool

Spec == Init /\ [][Next]_vars

\* The event loop resumes the coroutine whenever the awaited call has ended.
FairSpec == Spec /\ WF_vars(Next)

(***************************************************************************)
(* _parse_json_response, one action per strategy.                          *)
(***************************************************************************)
JsonInit ==
    /\ jtext \in Texts
    /\ jpc = "entry"
    /\ jtried = <<>>
    /\ jresult = NoResult
    /\ LoopIdle
    /\ FactoryIdle
    /\ PairIdle
    /\ ModuleIdle

JsonReturn(v) ==
    /\ jresult' = v
    /\ jpc' = "returned"

\* if not text: return {"error": "Empty response from LLM"}
EmptyCheck ==
    /\ jpc = "entry"
    /\ IF jtext = <<>>
       THEN JsonReturn(EmptyResponsePayload)
       ELSE jpc' = "direct" /\ UNCHANGED jresult
    /\ UNCHANGED <<jtext, jtried>>
    /\ UNCHANGED loopvars
    /\ UNCHANGED fvars
    /\ UNCHANGED pvars
    /\ UNCHANGED dvars

\* try: return json.loads(text)
TryDirect ==
    /\ jpc = "direct"
    /\ jtried' = Append(jtried, "direct")
    /\ IF JsonDecodes(jtext)
       THEN JsonReturn(Parsed(json_loads(jtext)))
       ELSE jpc' = "fenced" /\ UNCHANGED jresult
    /\ UNCHANGED jtext
    /\ UNCHANGED loopvars
    /\ UNCHANGED fvars
    /\ UNCHANGED pvars
    /\ UNCHANGED dvars

\* the loop over the fenced code blocks
TryFenced ==
    /\ jpc = "fenced"
    /\ jtried' = Append(jtried, "fenced")
    /\ LET matches == FencedMatches(jtext)
           i == FirstDecodable(matches, 1)
       IN  IF i # 0
           THEN JsonReturn(Parsed(json_loads(matches[i])))
           ELSE jpc' = "brace" /\ UNCHANGED jresult
    /\ UNCHANGED jtext
    /\ UNCHANGED loopvars
    /\ UNCHANGED fvars
    /\ UNCHANGED pvars
    /\ UNCHANGED dvars

\* the loop over the brace-delimited matches, then the error payload
TryBrace ==
    /\ jpc = "brace"
    /\ jtried' = Append(jtried, "brace")
    /\ LET matches == BraceMatches(jtext)
           i == FirstDecodable(matches, 1)
       IN  IF i # 0
           THEN JsonReturn(Parsed(json_loads(matches[i])))
           ELSE JsonReturn(CouldNotParsePayload(jtext))
    /\ UNCHANGED jtext
    /\ UNCHANGED loopvars
    /\ UNCHANGED fvars
    /\ UNCHANGED pvars
    /\ UNCHANGED dvars

JsonNext == EmptyCheck \/ TryDirect \/ TryFenced \/ TryBrace

JsonSpec == JsonInit /\ [][JsonNext]_vars

(***************************************************************************)
(* One call of get_provider.                                               *)
(***************************************************************************)
FactoryInit ==
    /\ factory_args \in
           [provider_name : ProviderNameArgs, model_type : ModelTypeArgs, model : ModelArgs,
            api_mode : ApiModes, has_key : BOOLEAN]
    /\ factory_pc = "call"
    /\ factory_result = NoFactoryResult
    /\ LoopIdle
    /\ JsonIdle
    /\ PairIdle
    /\ ModuleIdle

GetProvider ==
    /\ factory_pc = "call"
    /\ factory_result' =
           get_provider(factory_args.provider_name, factory_args.model_type,
                        factory_args.model, factory_args.api_mode, factory_args.has_key)
    /\ factory_pc' = "done"
    /\ UNCHANGED factory_args
    /\ UNCHANGED loopvars
    /\ UNCHANGED jvars
    /\ UNCHANGED pvars
    /\ UNCHANGED dvars

FactoryNext == GetProvider

FactorySpec == FactoryInit /\ [][FactoryNext]_vars

(***************************************************************************)
(* _wrap_response on its own: process_request at a return statement, with  *)
(* the totals the loop has counted drawn from TokenCounts.                 *)
(***************************************************************************)
MaxTokens == 6

TokenCounts == (0..MaxTokens) \cup {500000, 2000000}

WrapInit ==
    /\ provider \in Providers
    /\ pc = "wrap"
    /\ iteration \in 1..2
    /\ messages = <<UserText(<<WORD>>)>>
    /\ request = <<>>
    /\ response = NoResponse
    /\ tool_calls = <<>>
    /\ tool_results = <<>>
    /\ next_call = 0
    /\ tools_used = <<>>
    /\ total_input_tokens \in TokenCounts
    /\ total_output_tokens \in TokenCounts
    /\ result \in {Parsed(json_loads(<<LB, RB>>)), MaxIterationsPayload}
    /\ returned = NoReturn
    /\ vendor_calls = iteration
    /\ invoked = <<>>
    /\ responses_seen = <<>>
    /\ vendor_error = FALSE
    /\ usage_error = FALSE
    /\ special_turn = 0
    /\ tool_raised = {}
    /\ JsonIdle
    /\ FactoryIdle
    /\ PairIdle
    /\ ModuleIdle

\* return self._wrap_response(result, meta_fields, raw, ...)
WrapResponse ==
    /\ pc = "wrap"
    /\ UNCHANGED <<total_input_tokens, total_output_tokens>>
    /\ ReturnWith(result, AllCallerArgs)
    /\ UNCHANGED <<provider, iteration, messages, request, response, tool_calls, tool_results,
                   next_call, tools_used, vendor_calls, invoked, responses_seen, vendor_error,
                   usage_error, special_turn, tool_raised>>
    /\ UNCHANGED jvars
    /\ UNCHANGED fvars
    /\ UNCHANGED pvars
    /\ UNCHANGED dvars

WrapNext == WrapResponse

(***************************************************************************)
(* parse_tool_calls of the two OpenAI adapters on its own, applied to a     *)
(* response whose tool calls carry any kind of arguments text.             *)
(***************************************************************************)
ArgsPartKinds ==
    {TextPart(<<WORD>>)}
    \cup {[CallPart(name) EXCEPT !.args = args] :
            name \in {"geocode_location", UnknownTool},
            args \in {WellFormedArgs, MalformedArgs, NoArgs}}

ArgsResponses ==
    {[signal |-> "other", present |-> TRUE, parts |-> WithIds(ps), usage |-> Usage(5, 1)] :
        ps \in SeqsUpTo(ArgsPartKinds, MaxParts)}

ParseInit ==
    /\ provider \in {"openai", "openai_responses"}
    /\ pc = "parse"
    /\ iteration = 1
    /\ messages = <<UserText(<<WORD>>)>>
    /\ request = <<>>
    /\ response \in ArgsResponses
    /\ tool_calls = <<>>
    /\ tool_results = <<>>
    /\ next_call = 0
    /\ tools_used = <<>>
    /\ total_input_tokens = 0
    /\ total_output_tokens = 0
    /\ result = NoResult
    /\ returned = NoReturn
    /\ vendor_calls = 1
    /\ invoked = <<>>
    /\ responses_seen = <<>>
    /\ vendor_error = FALSE
    /\ usage_error = FALSE
    /\ special_turn = 0
    /\ tool_raised = {}
    /\ JsonIdle
    /\ FactoryIdle
    /\ PairIdle
    /\ ModuleIdle

\* tool_calls = self.provider.parse_tool_calls(response)
ParseToolCalls ==
    /\ pc = "parse"
    /\ tool_calls' = parse_tool_calls(provider, response)
    /\ pc' = "parsed"
    /\ UNCHANGED <<provider, iteration, messages, request, response, tool_results, next_call,
                   tools_used, total_input_tokens, total_output_tokens, result, returned,
                   vendor_calls, invoked, responses_seen, vendor_error, usage_error,
                   special_turn, tool_raised>>
    /\ UNCHANGED jvars
    /\ UNCHANGED fvars
    /\ UNCHANGED pvars
    /\ UNCHANGED dvars

ParseNext == ParseToolCalls

ParseSpec == ParseInit /\ [][ParseNext]_vars

WrapSpec == WrapInit /\ [][WrapNext]_vars

(***************************************************************************)
(* Two process_request coroutines interleaved on one event loop.  A frame  *)
(* holds the locals of one invocation (agent.py:105-123) together with its *)
(* arguments and with what its vendor and its tools are going to do:       *)
(* script is the sequence of vendor responses (when it is used up, the     *)
(* vendor call raises) and raising the tool calls (iteration, index) whose *)
(* function raises.  Step is one resumption of the coroutine: up to the    *)
(* next await or return.  calls is history: the conversation handed to     *)
(* each complete_with_tools call.                                          *)
(***************************************************************************)
Frame(p, mf, script, raising) ==
    [provider |-> p, meta_fields |-> mf, script |-> script, raising |-> raising,
     pc |-> "loop", iteration |-> 0, messages |-> <<UserText(<<WORD>>)>>,
     tool_calls |-> <<>>, tool_results |-> <<>>, next_call |-> 0, tools_used |-> <<>>,
     total_input_tokens |-> 0, total_output_tokens |-> 0, value |-> NoReturn.value,
     raw |-> FALSE, calls |-> <<>>]

Ended(f) == f.pc \in {"returned", "raised"}

ReturnFrom(f, data) ==
    [f EXCEPT !.pc = "returned",
              !.value = wrap_response(f.provider, data, f.meta_fields, f.raw,
                                      f.total_input_tokens, f.total_output_tokens,
                                      f.iteration, f.tools_used, NoCost)]

StepLoopHead(f) ==
    IF WhileCondition(f.iteration)
    THEN [f EXCEPT !.iteration = @ + 1, !.pc = "vendor", !.calls = Append(@, f.messages)]
    ELSE ReturnFrom(f, MaxIterationsPayload)

StepVendor(f) ==
    IF f.iteration > Len(f.script) THEN [f EXCEPT !.pc = "raised"]
    ELSE LET r == f.script[f.iteration]
             u == get_usage(f.provider, r)
             counted == [f EXCEPT !.total_input_tokens = Accumulate(@, u.input_tokens),
                                  !.total_output_tokens = Accumulate(@, u.output_tokens)]
         IN  IF UsageFails(f.provider, r) THEN [f EXCEPT !.pc = "raised"]
             ELSE IF Decision(f.provider, r) \in {"complete", "no tool calls"}
             THEN ReturnFrom(counted,
                             parse_json_response(extract_final_response(f.provider, r)))
             ELSE [counted EXCEPT
                      !.messages = Append(@, format_assistant_message(f.provider, r)),
                      !.tool_calls = parse_tool_calls(f.provider, r),
                      !.tool_results = <<>>,
                      !.next_call = 1,
                      !.pc = "tools"]

StepTool(f) ==
    LET tool_call == f.tool_calls[f.next_call]
        outcome == IF ~Invokes(tool_call) THEN "not awaited"
                   ELSE IF <<f.iteration, f.next_call>> \in f.raising THEN "raises"
                   ELSE "returns"
        results == Append(f.tool_results,
                          format_tool_result(f.provider, tool_call.id, tool_call.name,
                                             execute_tool(tool_call, outcome)))
        last == f.next_call = Len(f.tool_calls)
    IN  [f EXCEPT
            !.tools_used = Append(@, TraceEntry(tool_call, f.iteration)),
            !.tool_results = results,
            !.next_call = @ + 1,
            !.messages = IF last THEN Append(@, ToolResultsMessage(results)) ELSE @,
            !.pc = IF last THEN "loop" ELSE "tools"]

Step(f) ==
    CASE f.pc = "loop" -> StepLoopHead(f)
      [] f.pc = "vendor" -> StepVendor(f)
      [] f.pc = "tools" -> StepTool(f)

\* The invocation run on its own, to its end.
RECURSIVE RunAlone(_)
RunAlone(f) == IF Ended(f) THEN f ELSE RunAlone(Step(f))

\* The frame a frame started from.
InitialOf(f) == Frame(f.provider, f.meta_fields, f.script, f.raising)

TwoCallsResponse ==
    [signal |-> "other", present |-> TRUE,
     parts |-> WithIds(<<CallPart("geocode_location"), CallPart(UnknownTool)>>),
     usage |-> Usage(5, 1)]

Scripts ==
    {<<FinalResponse>>,
     <<BaseResponse, FinalResponse>>,
     <<TwoCallsResponse, BaseResponse, FinalResponse>>,
     <<BaseResponse>>,
     [i \in 1..max_iterations |-> BaseResponse]}

InitialFrames ==
    {Frame(p, MetaList({"usage", "iterations", "tools"}), script, raising) :
        p \in {"anthropic", "gemini"}, script \in Scripts, raising \in {{}, {<<1, 1>>}}}
    \cup {Frame(p, MetaNone, script, {}) : p \in {"anthropic", "gemini"}, script \in Scripts}

\* The frame whose locals a step of invocation i writes: its own.
Owner_Shared(i) == 1
Owner(i) == i

PairInit ==
    /\ invocations \in [1..2 -> InitialFrames]
    /\ stepper = 0
    /\ LoopIdle
    /\ JsonIdle
    /\ FactoryIdle
    /\ ModuleIdle

\* The event loop resumes one of the coroutines.
Resume ==
    /\ \E i \in 1..2 :
          /\ ~Ended(invocations[i])
          /\ invocations' = [invocations EXCEPT ![Owner(i)] = Step(invocations[i])]
          /\ stepper' = i
    /\ UNCHANGED loopvars
    /\ UNCHANGED jvars
    /\ UNCHANGED fvars
    /\ UNCHANGED dvars

PairNext == Resume

PairSpec == PairInit /\ [][PairNext]_vars

(***************************************************************************)
(* The legacy WeatherAgent.process_request (services/weather_agent.py)     *)
(* next to ServiceAgent.process_request(request, raw=True), both with the  *)
(* same adapter, the same vendor responses and the same tool outcomes.     *)
(* The legacy loop keeps no usage totals and no tool trace, and returns    *)
(* the parsed dict itself.                                                 *)
(***************************************************************************)
RawFrame(p, script, raising) == [Frame(p, MetaNone, script, raising) EXCEPT !.raw = TRUE]

\* return self._parse_json_response(final_text) / return {"error": ...}
WeatherReturnFrom(f, data) ==
    [f EXCEPT !.pc = "returned", !.value = [keys |-> data.keys, data |-> data, meta |-> NoMeta]]

WeatherStepLoopHead(f) ==
    IF WhileCondition(f.iteration)
    THEN [f EXCEPT !.iteration = @ + 1, !.pc = "vendor", !.calls = Append(@, f.messages)]
    ELSE WeatherReturnFrom(f, MaxIterationsPayload)

WeatherStepVendor(f) ==
    IF f.iteration > Len(f.script) THEN [f EXCEPT !.pc = "raised"]
    ELSE LET r == f.script[f.iteration]
         IN  IF Decision(f.provider, r) \in {"complete", "no tool calls"}
             THEN WeatherReturnFrom(f,
                      parse_json_response(extract_final_response(f.provider, r)))
             ELSE [f EXCEPT
                      !.messages = Append(@, format_assistant_message(f.provider, r)),
                      !.tool_calls = parse_tool_calls(f.provider, r),
                      !.tool_results = <<>>,
                      !.next_call = 1,
                      !.pc = "tools"]

\* A call of the adapters' format_tool_result(self, tool_use_id, tool_name, result)
\* with the given positional arguments: Python raises TypeError unless there are
\* three of them.
TypeError == [raised |-> "TypeError"]

CallFormatToolResult(p, args) ==
    IF Len(args) = 3 THEN format_tool_result(p, args[1], args[2], args[3])
    ELSE TypeError

\* result = await self._execute_tool(tool_call), then
\* tool_results.append(self.provider.format_tool_result(tool_call.id, result))
WeatherStepTool(f) ==
    LET tool_call == f.tool_calls[f.next_call]
        outcome == IF ~Invokes(tool_call) THEN "not awaited"
                   ELSE IF <<f.iteration, f.next_call>> \in f.raising THEN "raises"
                   ELSE "returns"
        formatted == CallFormatToolResult(f.provider,
                                          <<tool_call.id, execute_tool(tool_call, outcome)>>)
        results == Append(f.tool_results, formatted)
        last == f.next_call = Len(f.tool_calls)
    IN  IF formatted = TypeError THEN [f EXCEPT !.pc = "raised"]
        ELSE [f EXCEPT
                !.tool_results = results,
                !.next_call = @ + 1,
                !.messages = IF last THEN Append(@, ToolResultsMessage(results)) ELSE @,
                !.pc = IF last THEN "loop" ELSE "tools"]

WeatherStep(f) ==
    CASE f.pc = "loop" -> WeatherStepLoopHead(f)
      [] f.pc = "vendor" -> WeatherStepVendor(f)
      [] f.pc = "tools" -> WeatherStepTool(f)

LegacyScripts == Scripts \cup {<<>>, <<FinalResponse, FinalResponse>>}

\* invocations[1] is the ServiceAgent call with raw=True, invocations[2] the
\* WeatherAgent call.
LegacyInit ==
    /\ \E p \in Providers, script \in LegacyScripts, raising \in {{}, {<<1, 1>>}} :
          invocations = [i \in 1..2 |-> RawFrame(p, script, raising)]
    /\ stepper = 0
    /\ LoopIdle
    /\ JsonIdle
    /\ FactoryIdle
    /\ ModuleIdle

ResumeService ==
    /\ ~Ended(invocations[1])
    /\ invocations' = [invocations EXCEPT ![1] = Step(invocations[1])]
    /\ stepper' = 1
    /\ UNCHANGED loopvars
    /\ UNCHANGED jvars
    /\ UNCHANGED fvars
    /\ UNCHANGED dvars

ResumeWeather ==
    /\ ~Ended(invocations[2])
    /\ invocations' = [invocations EXCEPT ![2] = WeatherStep(invocations[2])]
    /\ stepper' = 2
    /\ UNCHANGED loopvars
    /\ UNCHANGED jvars
    /\ UNCHANGED fvars
    /\ UNCHANGED dvars

LegacyNext == ResumeService \/ ResumeWeather

LegacySpec == LegacyInit /\ [][LegacyNext]_vars

(***************************************************************************)
(* Vocabulary of the properties.                                           *)
(***************************************************************************)
Returned == pc = "returned"

\* Response i left the loop running: not complete, and at least one tool call.
ContinuesAt(i) == ~responses_seen[i].complete /\ responses_seen[i].calls >= 1

RECURSIVE FirstComplete(_, _)
FirstComplete(seen, i) ==
    IF i > Len(seen) THEN 0
    ELSE IF seen[i].complete THEN i
    ELSE FirstComplete(seen, i + 1)

IsMaxIterationsData(d) ==
    /\ d.error = "Max iterations reached"
    /\ d.keys = {"error", "partial_data"}

\* Turn t appends the assistant message (2t) and the tool-results message (2t+1).
TurnDone(t) == t >= 1 /\ Len(messages) >= 2 * t + 1
ResultsOf(t) == messages[2 * t + 1].items

\* The turn that tool_calls and tool_results belong to.
BatchTurn == Len(messages) \div 2
BatchDone == next_call > Len(tool_calls)

\* The result of call i of turn t, in the batch under way or in the conversation.
ResultOfCall(t, i) == IF TurnDone(t) THEN ResultsOf(t)[i] ELSE tool_results[i]

(***************************************************************************)
(* C1: whatever the vendor answers and whatever the tools do, one          *)
(* invocation issues at most max_iterations (10) complete_with_tools       *)
(* calls, never an 11th, and then ends: it returns, unless the vendor call *)
(* itself raised or a response came without the usage counts the loop      *)
(* reads (C20).                                                            *)
(***************************************************************************)
C1_AtMostTenVendorCalls ==
    /\ [](vendor_calls <= 10 /\ (pc = "raised" => (vendor_error \/ usage_error)))
    /\ <>(Returned \/ vendor_error \/ usage_error)

C1_Witness ==
    /\ Returned
    /\ vendor_calls = 10
    /\ tool_raised # {}
    /\ special_turn # 0

(***************************************************************************)
(* C2 as claimed: if is_complete is false for every response, the          *)
(* invocation issues exactly 10 vendor calls and returns the max           *)
(* iterations payload.                                                     *)
(***************************************************************************)
C2_NeverCompleteRunsToCeiling ==
    (Returned /\ \A i \in 1..Len(responses_seen) : ~responses_seen[i].complete)
        => (vendor_calls = 10 /\ IsMaxIterationsData(result))

(***************************************************************************)
(* C2 amended: if every response is incomplete and carries at least one    *)
(* tool call, the invocation issues exactly 10 vendor calls and returns    *)
(* {"error": "Max iterations reached", "partial_data": null}.              *)
(***************************************************************************)
C2_NeverCompleteWithToolCallsRunsToCeiling ==
    (Returned /\ \A i \in 1..Len(responses_seen) : ContinuesAt(i))
        => (vendor_calls = 10 /\ IsMaxIterationsData(result))

C2_Witness ==
    /\ Returned
    /\ Len(responses_seen) = 10
    /\ \A i \in 1..Len(responses_seen) : ContinuesAt(i)
    /\ \E i \in 1..Len(responses_seen) : responses_seen[i].calls >= 2
    /\ IsMaxIterationsData(result)

(***************************************************************************)
(* C3: when responses 1..k-1 are incomplete with at least one tool call    *)
(* and response k is the first complete one, exactly min(k, 10) vendor     *)
(* calls are issued (k when a complete response is received, 10 when the   *)
(* loop runs out before one comes); no vendor call follows a complete      *)
(* response; a first response that is complete with no tool call ends the  *)
(* loop after one vendor call and no tool execution.                       *)
(***************************************************************************)
C3_StopsAtFirstCompleteResponse ==
    LET n == Len(responses_seen)
        k == FirstComplete(responses_seen, 1)
    IN  /\ k # 0 => (k = n /\ pc = "returned")
        /\ (Returned /\ k # 0 /\ \A i \in 1..(k - 1) : ContinuesAt(i))
               => (vendor_calls = k /\ k <= 10)
        /\ (Returned /\ k = 0 /\ \A i \in 1..n : ContinuesAt(i))
               => vendor_calls = 10
        /\ (Returned /\ n >= 1 /\ responses_seen[1].complete /\ responses_seen[1].calls = 0)
               => (vendor_calls = 1 /\ invoked = <<>> /\ tools_used = <<>>
                   /\ Len(messages) = 1)

C3_Witness ==
    /\ Returned
    /\ FirstComplete(responses_seen, 1) = 4
    /\ vendor_calls = 4
    /\ \A i \in 1..3 : ContinuesAt(i)
    /\ special_turn = 2
    /\ tool_raised # {}

(***************************************************************************)
(* C4: whenever complete_with_tools is called for the (n+1)-th time, the   *)
(* last message of the conversation holds exactly as many tool results as  *)
(* the n-th response produced tool calls, the i-th result carrying the id  *)
(* of the i-th call, also when tools were unknown or raised.               *)
(***************************************************************************)
C4_ResultsMatchCallsBeforeNextVendorCall ==
    (pc = "vendor" /\ iteration >= 2) =>
        LET last == messages[Len(messages)]
            calls == parse_tool_calls(provider, response)
        IN  /\ last.ctype = "list"
            /\ Len(last.items) = Len(calls)
            /\ \A i \in 1..Len(calls) :
                  /\ last.items[i].type = "tool_result"
                  /\ last.items[i].id = calls[i].id

C4_Witness ==
    /\ pc = "vendor"
    /\ iteration >= 2
    /\ Len(tool_calls) = 2
    /\ tool_calls[1].name \in TOOL_FUNCTIONS
    /\ tool_calls[2].name = UnknownTool
    /\ <<iteration - 1, 1>> \in tool_raised
    /\ messages[Len(messages)].items[2].id = tool_calls[2].id

(***************************************************************************)
(* C5: for each adapter, after the loop appended the assistant message and *)
(* the tool-results message, the native request the adapter builds for the *)
(* next call contains the assistant's tool-call turn and one tool-result   *)
(* entry per tool call, each carrying the id of the call it answers.       *)
(***************************************************************************)
RequestCalls == Flatten([i \in 1..Len(request) |-> request[i].calls])
RequestResults == Flatten([i \in 1..Len(request) |-> request[i].results])
LastN(seq, n) == SubSeq(seq, Len(seq) - n + 1, Len(seq))

C5_CallIdsSurviveRoundTrip ==
    (pc = "vendor" /\ iteration >= 2) =>
        LET calls == parse_tool_calls(provider, response)
            n == Len(calls)
        IN  /\ Len(RequestCalls) >= n
            /\ Len(RequestResults) >= n
            /\ \A i \in 1..n :
                  /\ LastN(RequestCalls, n)[i].id = calls[i].id
                  /\ LastN(RequestResults, n)[i].id = calls[i].id

\* The adapters for which the round trip holds.
C5_HoldsForCallIdVendors ==
    provider \in {"anthropic", "openai", "openai_responses"} => C5_CallIdsSurviveRoundTrip

(***************************************************************************)
(* C6: for every adapter and every response, is_complete(response)         *)
(* implies that parse_tool_calls(response) is empty, so the loop never     *)
(* returns a final answer from a response that still carries tool calls.   *)
(***************************************************************************)
C6_CompleteImpliesNoToolCalls ==
    response # NoResponse =>
        (is_complete(provider, response) => parse_tool_calls(provider, response) = <<>>)

(***************************************************************************)
(* C7 and C8 share these.                                                  *)
(***************************************************************************)
RaisedInTurn(t) == \E c \in tool_raised : c[1] = t

\* Every tool call of a turn has its result in the batch that was appended.
WholeBatches ==
    \A t \in 1..Len(responses_seen) :
        TurnDone(t) => Len(ResultsOf(t)) = responses_seen[t].calls

\* Only a failing vendor call makes process_request raise.
OnlyVendorRaises == pc = "raised" => (vendor_error \/ usage_error)

\* From the loop test the next step is a vendor call.
GoesOnToVendorCall == pc' = "vendor" /\ vendor_calls' = vendor_calls + 1

\* ... or, after the 10th turn, the return of the max iterations payload.
EndsAtCeiling == iteration = 10 /\ pc' = "returned" /\ IsMaxIterationsData(result')

C7_Results ==
    /\ \A c \in tool_raised :
          \E name \in TOOL_FUNCTIONS :
              /\ ResultOfCall(c[1], c[2]).content
                     = <<"Error executing ", name, ": ", ExceptionMessage>>
              /\ c[1] = BatchTurn => name = tool_calls[c[2]].name
    /\ WholeBatches
    /\ OnlyVendorRaises

HandledNames == [i \in 1..Len(tools_used) |-> tools_used[i].name]
IsKnown(name) == name \in TOOL_FUNCTIONS
UnknownInBatch == \E i \in 1..Len(tool_calls) : ~IsKnown(tool_calls[i].name)

C8_Results ==
    /\ invoked = SelectSeq(HandledNames, IsKnown)
    /\ Len(tool_results) <= Len(tool_calls)
    /\ \A i \in 1..Len(tool_results) :
          /\ tool_results[i].id = tool_calls[i].id
          /\ ~IsKnown(tool_calls[i].name) =>
                tool_results[i].content = <<"Error: Unknown tool '", tool_calls[i].name, "'">>
    /\ (tool_calls # <<>> /\ BatchDone) =>
          (Len(tool_results) = Len(tool_calls) /\ ResultsOf(BatchTurn) = tool_results)
    /\ OnlyVendorRaises

C9_VendorFailurePropagates ==
    /\ [](vendor_error => (pc = "raised" /\ result = NoResult))
    /\ [][vendor_error => UNCHANGED <<vendor_calls, invoked, tools_used, messages, result>>]_vars

C9_Witness ==
    /\ vendor_error
    /\ pc = "raised"
    /\ vendor_calls = 3
    /\ Len(invoked) >= 2
    /\ special_turn = 2

(***************************************************************************)
(* Fenced code blocks as a reader of the text sees them: the fences pair   *)
(* up from the left, and the opening fence may carry an info word (a       *)
(* language name) that whitespace separates from the block's body.         *)
(***************************************************************************)
RECURSIVE BlocksFrom(_, _)
BlocksFrom(s, from) ==
    LET open == FirstIndex(s, FENCE, from)
        close == IF open = 0 THEN 0 ELSE FirstIndex(s, FENCE, open + 1)
    IN  IF open = 0 \/ close = 0 THEN <<>>
        ELSE <<SubSeq(s, open + 1, close - 1)>> \o BlocksFrom(s, close + 1)

BlockBody(infos, inside) ==
    IF Len(inside) >= 2 /\ inside[1] \in infos /\ inside[2] = WS THEN Tail(inside) ELSE inside

BlockBodies(infos, s) ==
    LET blocks == BlocksFrom(s, 1)
    IN  [i \in 1..Len(blocks) |-> BlockBody(infos, blocks[i])]

\* The text wraps valid JSON in a fenced code block.
WrapsJson(infos, s) == FirstDecodable(BlockBodies(infos, s), 1) # 0
WrappedValue(infos, s) ==
    LET bodies == BlockBodies(infos, s) IN json_loads(bodies[FirstDecodable(bodies, 1)])

Tried(strategy) == \E i \in 1..Len(jtried) : jtried[i] = strategy
JsonReturned == jpc = "returned"

\* The strategies run in the order direct, fenced, brace, each one only
\* after the ones before it failed.
JsonStrategyOrder ==
    /\ jtried \in {<<>>, <<"direct">>, <<"direct", "fenced">>, <<"direct", "fenced", "brace">>}
    /\ (JsonReturned /\ jtext # <<>> /\ JsonDecodes(jtext)) =>
           (jresult = Parsed(json_loads(jtext)) /\ jtried = <<"direct">>)
    /\ Tried("fenced") => ~JsonDecodes(jtext)
    /\ Tried("brace") => (~JsonDecodes(jtext) /\ FirstDecodable(FencedMatches(jtext), 1) = 0)

\* A block whose fence is bare or tagged json is recovered by the fenced strategy.
JsonTaggedBlockIsRecovered ==
    (JsonReturned /\ WrapsJson({TAG}, jtext)) =>
        (jresult = Parsed(WrappedValue({TAG}, jtext)) /\ ~Tried("brace"))

(***************************************************************************)
(* C10: JSON recovery returns the direct parse whenever that succeeds,     *)
(* parses fenced blocks only after the direct parse failed, and extracts   *)
(* braces only after both failed; so for a text that wraps valid JSON in a *)
(* fenced code block the result is that block's value and brace extraction *)
(* is never attempted.                                                     *)
(***************************************************************************)
C10_FencedJsonIsRecoveredBeforeBraces ==
    /\ JsonStrategyOrder
    /\ (JsonReturned /\ WrapsJson({TAG, WORD}, jtext)) =>
           (jresult = Parsed(WrappedValue({TAG, WORD}, jtext)) /\ ~Tried("brace"))

(***************************************************************************)
(* Texts of the form prefix + JSON object + suffix.                        *)
(***************************************************************************)
NoFence(s) == FirstIndex(s, FENCE, 1) = 0
HasBrace(s) == FirstIndex(s, LB, 1) # 0 \/ FirstIndex(s, RB, 1) # 0

\* s[a..b] is a JSON object with text that is not JSON before and after it.
ObjectAt(s, a, b) ==
    /\ a < b
    /\ IsObject(SubSeq(s, a, b))
    /\ ~JsonDecodes(SubSeq(s, 1, a - 1))
    /\ ~JsonDecodes(SubSeq(s, b + 1, Len(s)))

EmbedsObject(s) == \E a, b \in 1..Len(s) : ObjectAt(s, a, b)
EmbeddedObject(s) ==
    LET ab == CHOOSE ab \in (1..Len(s)) \X (1..Len(s)) : ObjectAt(s, ab[1], ab[2])
    IN  json_loads(SubSeq(s, ab[1], ab[2]))

\* With no brace in the prefix or the suffix the brace strategy recovers the object.
ObjectInBraceFreeTextIsRecovered ==
    (JsonReturned /\ ~JsonDecodes(jtext) /\ NoFence(jtext)) =>
        \A a, b \in 1..Len(jtext) :
            (/\ ObjectAt(jtext, a, b)
             /\ ~HasBrace(SubSeq(jtext, 1, a - 1))
             /\ ~HasBrace(SubSeq(jtext, b + 1, Len(jtext))))
                => jresult = Parsed(json_loads(SubSeq(jtext, a, b)))

(***************************************************************************)
(* C11: when the direct parse fails and the text has no fenced block, a    *)
(* text of the form prefix + valid JSON object + suffix (prefix and suffix *)
(* not JSON) is recovered as that object, not as an error payload.         *)
(***************************************************************************)
C11_EmbeddedObjectIsRecovered ==
    (JsonReturned /\ ~JsonDecodes(jtext) /\ NoFence(jtext) /\ EmbedsObject(jtext)) =>
        (jresult = Parsed(EmbeddedObject(jtext)) /\ jresult.error = "")

(***************************************************************************)
(* Total failure: none of the three strategies yields a parse.             *)
(***************************************************************************)
AllStrategiesFail(s) ==
    /\ ~JsonDecodes(s)
    /\ FirstDecodable(FencedMatches(s), 1) = 0
    /\ FirstDecodable(BraceMatches(s), 1) = 0

\* For a text that is not empty, total failure gives the error payload with the text.
NonEmptyTotalFailureKeepsRawText ==
    (JsonReturned /\ jtext # <<>> /\ AllStrategiesFail(jtext)) =>
        (/\ jresult = CouldNotParsePayload(jtext)
         /\ jresult.raw_response = jtext
         /\ jtried = <<"direct", "fenced", "brace">>)

(***************************************************************************)
(* C12: for every text, the empty one included, on which the direct parse, *)
(* the fenced-block parse and the brace extraction all fail, the result is *)
(* exactly {"error": "Could not parse JSON from response", "raw_response": *)
(* the text unchanged}.                                                    *)
(***************************************************************************)
C12_TotalFailureReturnsRawText ==
    (JsonReturned /\ AllStrategiesFail(jtext)) =>
        (/\ jresult.error = "Could not parse JSON from response"
         /\ jresult.keys = {"error", "raw_response"}
         /\ jresult.raw_response = jtext)

(***************************************************************************)
(* Sums of the get_usage values of the responses received.                 *)
(***************************************************************************)
RECURSIVE SumInput(_)
SumInput(seen) ==
    IF seen = <<>> THEN 0 ELSE Head(seen).usage.input_tokens + SumInput(Tail(seen))

RECURSIVE SumOutput(_)
SumOutput(seen) ==
    IF seen = <<>> THEN 0 ELSE Head(seen).usage.output_tokens + SumOutput(Tail(seen))

ReturnedUsage == returned.value.meta.usage
ReturnsMetaField(f) == "meta" \in returned.value.keys /\ f \in returned.value.meta.keys

(***************************************************************************)
(* C13: on every return the cumulative input_tokens and output_tokens are  *)
(* the sums of the get_usage values of all responses received in the       *)
(* invocation, one per iteration, the final one included; the running      *)
(* totals never decrease.                                                  *)
(***************************************************************************)
C13_CumulativeUsageIsSumOfResponses ==
    /\ [](Returned =>
            /\ Len(responses_seen) = iteration
            /\ total_input_tokens = SumInput(responses_seen)
            /\ total_output_tokens = SumOutput(responses_seen)
            /\ ReturnsMetaField("usage") =>
                   ReturnedUsage = [input_tokens |-> SumInput(responses_seen),
                                    output_tokens |-> SumOutput(responses_seen)])
    /\ [][/\ total_input_tokens' >= total_input_tokens
          /\ total_output_tokens' >= total_output_tokens]_vars

C13_Witness ==
    /\ Returned
    /\ vendor_calls = 3
    /\ special_turn = 2
    /\ ReturnsMetaField("usage")
    /\ ReturnedUsage = [input_tokens |-> 12, output_tokens |-> 4]

(***************************************************************************)
(* Costs are counted in millionths of a dollar and prices in cents per     *)
(* million tokens, so tokens * price is a hundred times the exact cost.    *)
(***************************************************************************)
ReturnedCost == returned.value.meta.cost
PriceInUse == pricing(provider, DefaultModel(provider))

\* c is the exact cost exact100 / 100 rounded to a millionth.
RoundedTo6(c, exact100) == 100 * c - exact100 <= 50 /\ exact100 - 100 * c <= 50

(***************************************************************************)
(* C14: when cost is asked for, meta.cost.input is (input_tokens /         *)
(* 1,000,000) * pricing.input, meta.cost.output is (output_tokens /        *)
(* 1,000,000) * pricing.output and meta.cost.total is their sum, each      *)
(* rounded to 6 decimal places; 2,000,000 input tokens and 500,000 output  *)
(* tokens at the rate 1.00 / 5.00 cost 4.50 in total.                      *)
(***************************************************************************)
C14_CostIsTokensTimesRate ==
    (Returned /\ ReturnsMetaField("cost")) =>
        /\ RoundedTo6(ReturnedCost.input, total_input_tokens * PriceInUse.input)
        /\ RoundedTo6(ReturnedCost.output, total_output_tokens * PriceInUse.output)
        /\ RoundedTo6(ReturnedCost.total,
                      total_input_tokens * PriceInUse.input
                          + total_output_tokens * PriceInUse.output)
        /\ (/\ total_input_tokens = 2000000
            /\ total_output_tokens = 500000
            /\ PriceInUse = Price(100, 500))
               => ReturnedCost = [input |-> 2000000, output |-> 2500000, total |-> 4500000]

C14_Witness ==
    /\ Returned
    /\ ReturnsMetaField("cost")
    /\ total_input_tokens = 2000000
    /\ total_output_tokens = 500000
    /\ PriceInUse = Price(100, 500)
    /\ ReturnedCost.total = 4500000

(***************************************************************************)
(* Vocabulary for get_provider.                                            *)
(***************************************************************************)
FactoryDone == factory_pc = "done"
KnownProviderNames == DOMAIN providers
Listed == {factory_result.listed[i] : i \in 1..Len(factory_result.listed)}

ExpectedName ==
    IF ~Falsy(factory_args.provider_name) THEN factory_args.provider_name
    ELSE IF ~Falsy(factory_args.model) /\ factory_args.model \in DOMAIN MODELS
    THEN MODELS[factory_args.model].provider
    ELSE LLM_PROVIDER

\* The adapter classes get_provider builds for a known name.
ClassesOf(name) ==
    IF name = "openai" THEN {"OpenAIProvider", "OpenAIResponsesProvider"}
    ELSE {providers[name]}

ResolvesTo(name) ==
    IF name \notin KnownProviderNames
    THEN /\ factory_result.outcome = "raised"
         /\ factory_result.error = "Unknown provider"
         /\ factory_result.name = name
    ELSE /\ factory_result.outcome = "raised" => factory_result.error # "Unknown provider"
         /\ factory_result.outcome = "adapter" =>
                /\ factory_result.class \in ClassesOf(name)
                /\ factory_result.model_type = factory_args.model_type
                /\ factory_result.requested_model = factory_args.model

\* When the provider name is not the empty string the priority is as stated.
NameResolutionUnlessEmptyName ==
    (FactoryDone /\ factory_args.provider_name # "") => ResolvesTo(ExpectedName)

(***************************************************************************)
(* C16: get_provider takes the explicit provider_name when given;          *)
(* otherwise, when model is given and listed in the model table, the       *)
(* provider the table maps it to; otherwise the default provider.  model   *)
(* and model_type reach the constructed adapter unchanged.                 *)
(***************************************************************************)
C16_ProviderNamePriority == FactoryDone => ResolvesTo(ExpectedName)

(***************************************************************************)
(* The shape of what process_request returns.                              *)
(***************************************************************************)
\* {"data": result}, with the key meta exactly when meta_fields asks for it.
WrappedShape ==
    /\ returned.value.data = result
    /\ "data" \in returned.value.keys
    /\ returned.value.keys \subseteq {"data", "meta"}
    /\ "meta" \in returned.value.keys <=> Truthy(returned.meta_fields)

\* The result itself, unwrapped.
RawShape ==
    /\ returned.value.data = result
    /\ returned.value.keys = result.keys
    /\ returned.value.meta = NoMeta

(***************************************************************************)
(* C17: every normal return of process_request is an object with the key   *)
(* data holding the recovered JSON value or the error payload, and with    *)
(* the key meta if and only if the caller asked for metadata; there is no  *)
(* other top-level shape.                                                  *)
(***************************************************************************)
C17_EveryReturnIsWrapped == Returned => WrappedShape

(***************************************************************************)
(* C17, amended: that shape is returned unless the caller passed raw=True; *)
(* then the result itself is returned, without data and meta keys.         *)
(***************************************************************************)
C17_EveryReturnIsWrappedUnlessRaw ==
    Returned => IF returned.raw THEN RawShape ELSE WrappedShape

C17_Witness ==
    /\ Returned
    /\ ~returned.raw
    /\ returned.meta_fields = MetaList({"usage"})
    /\ returned.value.keys = {"data", "meta"}
    /\ returned.value.meta.keys = {"usage"}
    /\ returned.value.data = Parsed(json_loads(<<LB, RB>>))
    /\ vendor_calls = 2

AllText(r) == Concat(TextsOf(r.parts))

Received == vendor_calls > 0 /\ pc \in {"tools", "returned"} /\ iteration = vendor_calls

C19_ExtractConcatenatesAllTextParts ==
    Received => extract_final_response(provider, response) = AllText(response)

\* What holds: every adapter but the Anthropic one concatenates, and the
\* Anthropic one returns the first text part.
ExtractsAllTextUnlessAnthropic ==
    Received =>
        LET texts == TextsOf(response.parts)
        IN  extract_final_response(provider, response) =
                IF provider = "anthropic" /\ texts # <<>> THEN texts[1] ELSE Concat(texts)

(***************************************************************************)
(* C20: for every adapter, get_usage returns the two counts with a missing *)
(* field, or a missing usage section, counted as 0; it never raises, so a  *)
(* response without usage data never aborts the loop.                      *)
(***************************************************************************)
ZeroFilled(u) ==
    IF ~u.section THEN UsageDict(FALSE, 0, FALSE, 0)
    ELSE UsageDict(FALSE, OrZero(u.input, u.input_tokens),
                   FALSE, OrZero(u.output, u.output_tokens))

C20_GetUsageNeverRaises ==
    /\ ~usage_error
    /\ response # NoResponse => get_usage(provider, response) = ZeroFilled(response.usage)

\* What holds: the Gemini and Vertex adapters fill in zeros whatever is
\* missing, and the two OpenAI adapters do when the section is missing or a
\* field is None.
GetUsageZeroFillsWhereDefensive ==
    response # NoResponse =>
        \/ provider = "anthropic"
        \/ provider \in {"openai", "openai_responses"}
              /\ response.usage.section
              /\ "absent" \in {response.usage.input, response.usage.output}
        \/ /\ get_usage(provider, response) = ZeroFilled(response.usage)
           /\ ~usage_error

(***************************************************************************)
(* C21: for every adapter, pricing is the rate the model table lists for   *)
(* the adapter's model_name when the model is listed, and the default rate *)
(* {input 1.00, output 5.00} when it is not.                               *)
(***************************************************************************)
Built == FactoryDone /\ factory_result.outcome = "adapter"

TableRate(model) == IF model \in DOMAIN MODELS THEN MODELS[model].pricing ELSE DEFAULT_PRICING

PricingOfBuilt == pricing(AdapterOf(factory_result.class), factory_result.model_name)

C21_PricingFollowsModelTable == Built => PricingOfBuilt = TableRate(factory_result.model_name)

\* What holds: every adapter but the OpenAI chat one looks the rate up, and
\* the OpenAI chat adapter always answers the rate of gpt-5-mini.
PricingFollowsTableUnlessOpenAIChat ==
    Built =>
        PricingOfBuilt = IF factory_result.class = "OpenAIProvider" THEN Price(25, 200)
                         ELSE TableRate(factory_result.model_name)

(***************************************************************************)
(* C22: when a response (whose usage was read) is not complete and         *)
(* parse_tool_calls finds no tool call in it, process_request ends in that *)
(* same iteration: it returns the JSON recovered from the text extracted   *)
(* from that response, appends nothing to the conversation, executes no    *)
(* tool and issues no further vendor call.                                 *)
(***************************************************************************)
Degenerate(r) == ~is_complete(provider, r) /\ parse_tool_calls(provider, r) = <<>>

C22_NoToolCallsEndsTheInvocation ==
    /\ [][(pc = "vendor" /\ pc' \in {"returned", "tools"} /\ Degenerate(response')) =>
            /\ pc' = "returned"
            /\ result' = parse_json_response(extract_final_response(provider, response'))
            /\ returned'.value.data = result'
            /\ messages' = messages
            /\ iteration' = iteration
            /\ <<invoked', tools_used', vendor_calls'>> = <<invoked, tools_used, vendor_calls>>]_vars
    /\ [][pc # "returned"]_vars

C22_Witness ==
    /\ Returned
    /\ provider = "openai_responses"
    /\ Degenerate(response)
    /\ iteration = 2
    /\ vendor_calls = 2
    /\ Len(messages) = 3
    /\ Len(invoked) = 1
    /\ result = Parsed(json_loads(<<LB, RB>>))

(***************************************************************************)
(* C23: the tool calls of one model turn are executed one at a time in the *)
(* order parse_tool_calls returned them: call i+1 starts only after call i *)
(* has returned or raised, no complete_with_tools call is issued between   *)
(* the first and the last execution of the turn, and the results are       *)
(* appended as one single message only after the last one finished.        *)
(***************************************************************************)
\* The names traced in iteration t, in trace order.
TracedIn(t) ==
    LET InTurn(e) == e.iteration = t
        entries == SelectSeq(tools_used, InTurn)
    IN  [i \in 1..Len(entries) |-> entries[i].name]

\* The calls 1..n of the turn under way have been executed, in that order, and
\* nothing else of the turn has.
ExecutedUpTo(n) ==
    /\ Len(tool_results) = n
    /\ TracedIn(iteration) = [i \in 1..n |-> tool_calls[i].name]
    /\ \A i \in 1..n :
          \E outcome \in {"returns", "raises", "not awaited"} :
              tool_results[i] =
                  format_tool_result(provider, tool_calls[i].id, tool_calls[i].name,
                                     execute_tool(tool_calls[i], outcome))

C23_ToolCallsRunInOrderAsOneBatch ==
    /\ [](pc = "tools" =>
            /\ tool_calls = parse_tool_calls(provider, response)
            /\ next_call \in 1..Len(tool_calls)
            /\ ExecutedUpTo(next_call - 1))
    /\ [][pc = "tools" =>
            /\ vendor_calls' = vendor_calls
            /\ next_call' = next_call + 1
            /\ tool_results' # tool_results
            /\ IF next_call < Len(tool_calls)
               THEN pc' = "tools" /\ messages' = messages
               ELSE /\ pc' = "loop"
                    /\ Len(messages') = Len(messages) + 1
                    /\ SubSeq(messages', 1, Len(messages)) = messages
                    /\ messages'[Len(messages')].role = "user"
                    /\ messages'[Len(messages')].items = tool_results'
                    /\ Len(tool_results') = Len(tool_calls)]_vars

C23_Witness ==
    /\ pc = "loop"
    /\ iteration = 2
    /\ Len(tool_calls) = 2
    /\ tool_calls[1].name = UnknownTool
    /\ tool_calls[2].name = "geocode_location"
    /\ <<2, 2>> \in tool_raised
    /\ TracedIn(2) = <<UnknownTool, "geocode_location">>
    /\ Len(messages) = 5
    /\ Len(messages[5].items) = 2

(***************************************************************************)
(* C24: the conversation of one invocation is append-only and has a fixed  *)
(* shape: it starts as exactly one user message; each tool-calling         *)
(* iteration appends exactly two messages, the assistant turn and then one *)
(* user-role message with that turn's tool results; no earlier message is  *)
(* changed, reordered or removed, so the list given to vendor call n+1 is  *)
(* the list given to call n plus those two messages.                       *)
(***************************************************************************)
IsAssistantTurn(m) == m.role \in {"assistant", "model"}
IsResultsMessage(m) == m.role = "user" /\ m.ctype = "list" /\ m.items # <<>>

\* One user message, then an assistant turn and a results message per turn.
ConversationShape(msgs, turns) ==
    /\ Len(msgs) = 2 * turns + 1
    /\ msgs[1] = UserText(<<WORD>>)
    /\ \A t \in 1..turns : IsAssistantTurn(msgs[2 * t]) /\ IsResultsMessage(msgs[2 * t + 1])

C24_ConversationIsAppendOnly ==
    /\ [][/\ Len(messages') \in {Len(messages), Len(messages) + 1}
          /\ SubSeq(messages', 1, Len(messages)) = messages]_vars
    /\ [](pc = "vendor" => ConversationShape(messages, vendor_calls - 1))
    /\ [](pc = "tools" =>
            /\ ConversationShape(SubSeq(messages, 1, Len(messages) - 1), iteration - 1)
            /\ messages[Len(messages)] = format_assistant_message(provider, response))
    /\ [](pc \in {"loop", "returned"} => \E turns \in 0..iteration :
                                             ConversationShape(messages, turns))

C24_Witness ==
    /\ pc = "vendor"
    /\ vendor_calls = 3
    /\ provider = "gemini"
    /\ special_turn = 2
    /\ Len(messages) = 5
    /\ Len(messages[5].items) = 2
    /\ messages[4].role = "model"

(***************************************************************************)
(* C25: on return the tool trace has exactly one entry per tool call the   *)
(* loop handled (unknown tools and tools that raised included), in         *)
(* execution order, each entry holding the call's name, its arguments and  *)
(* the 1-based index of the iteration that produced it; the iteration      *)
(* indices never decrease and never exceed the number of vendor calls.     *)
(***************************************************************************)
\* The tool calls of the responses that went on to the tool loop.
RECURSIVE HandledCalls(_)
HandledCalls(seen) ==
    IF seen = <<>> THEN 0
    ELSE (IF Head(seen).complete THEN 0 ELSE Head(seen).calls) + HandledCalls(Tail(seen))

C25_TraceHasOneEntryPerHandledCall ==
    /\ [](Returned => Len(tools_used) = HandledCalls(responses_seen))
    /\ [](\A i \in 1..Len(tools_used) :
            /\ tools_used[i].iteration \in 1..vendor_calls
            /\ i > 1 => tools_used[i - 1].iteration <= tools_used[i].iteration)
    /\ [][IF pc = "tools"
          THEN tools_used' = Append(tools_used, [name |-> tool_calls[next_call].name,
                                                 input |-> tool_calls[next_call].input,
                                                 iteration |-> vendor_calls])
          ELSE tools_used' = tools_used]_vars

C25_Witness ==
    /\ Returned
    /\ vendor_calls = 3
    /\ tools_used = <<[name |-> "geocode_location", input |-> LocationArgs, iteration |-> 1],
                      [name |-> UnknownTool, input |-> LocationArgs, iteration |-> 2],
                      [name |-> "geocode_location", input |-> LocationArgs, iteration |-> 2]>>
    /\ <<2, 2>> \in tool_raised

(***************************************************************************)
(* C26: in the OpenAI chat and OpenAI Responses adapters a tool call whose *)
(* arguments text is no JSON is still returned by parse_tool_calls, with   *)
(* its id and name intact and an empty argument mapping; the other tool    *)
(* calls of the response keep their parsed arguments and the parse does    *)
(* not fail.                                                               *)
(***************************************************************************)
CallPartsOf(r) == SelectSeq(r.parts, IsCall)

C26_MalformedArgumentsBecomeEmptyMapping ==
    pc = "parsed" =>
        /\ Len(tool_calls) = Len(CallPartsOf(response))
        /\ \A i \in 1..Len(tool_calls) :
              LET part == CallPartsOf(response)[i]
              IN  /\ tool_calls[i].id = part.id
                  /\ tool_calls[i].name = part.name
                  /\ part.args = MalformedArgs => tool_calls[i].input = EmptyMapping
                  /\ part.args = WellFormedArgs => tool_calls[i].input = LocationArgs

C26_Witness ==
    /\ pc = "parsed"
    /\ provider = "openai_responses"
    /\ Len(tool_calls) = 2
    /\ CallPartsOf(response)[1].args = MalformedArgs
    /\ CallPartsOf(response)[2].args = WellFormedArgs
    /\ tool_calls[1] = ToolCall(VendorId(1), "geocode_location", EmptyMapping)
    /\ tool_calls[2] = ToolCall(VendorId(2), UnknownTool, LocationArgs)

----------------------------------------------------------------------------
\* C27: every complete_with_tools call of one invocation receives the catalog's
\* full list of tool declarations and the same system prompt, and no step of the
\* loop (a vendor call, a tool execution, an appended message, accumulated
\* usage) changes the tool declarations, the tool catalog or the system prompt.
C27_SameDeclarationsAtEveryCall ==
    /\ [](vendor_calls > 0 =>
            declared = [tools |-> TOOLS, system_prompt |-> SYSTEM_PROMPT])
    /\ [](module_state = ModuleState)
    /\ [][module_state' = module_state]_vars

\* A third vendor call, made after two batches of tools ran and usage accrued.
C27_Witness ==
    /\ vendor_calls = 3
    /\ pc = "vendor"
    /\ Len(tools_used) >= 2
    /\ Len(messages) >= 5
    /\ declared = [tools |-> TOOLS, system_prompt |-> SYSTEM_PROMPT]

----------------------------------------------------------------------------
\* C28: WeatherAgent.process_request and ServiceAgent.process_request with
\* raw=True are equivalent: with the same adapter, the same vendor responses and
\* the same tool outcomes, once both have ended they have issued the same vendor
\* calls with the same conversations and ended the same way with the same data,
\* including when a response carries tool calls.
BothEnded == Ended(invocations[1]) /\ Ended(invocations[2])

C28_LegacyLoopEquivalentToRawServiceAgent ==
    BothEnded =>
        /\ invocations[1].calls = invocations[2].calls
        /\ invocations[1].pc = invocations[2].pc
        /\ invocations[1].value = invocations[2].value

\* The two loops agree on every run in which no response carries tool calls.
NoBatchRan == invocations[1].tool_calls = <<>> /\ invocations[2].tool_calls = <<>>

LegacyLoopEquivalentWithoutToolCalls ==
    (BothEnded /\ NoBatchRan) =>
        /\ invocations[1].calls = invocations[2].calls
        /\ invocations[1].pc = invocations[2].pc
        /\ invocations[1].value = invocations[2].value

LegacyLoopAnswersWithoutToolCalls ==
    /\ BothEnded
    /\ NoBatchRan
    /\ invocations[1].pc = "returned"
    /\ invocations[2].pc = "returned"

----------------------------------------------------------------------------
\* C29: every batch of tool calls the loop executes has its results passed to a
\* later complete_with_tools call of the same invocation, also when the tool
\* calls come in the last allowed iteration: when process_request returns, each
\* results message of the conversation was part of the conversation handed to a
\* vendor call.  The k-th results message is appended after the k-th vendor call
\* and is first handed over by call k + 1.
ResultsMessages == {i \in 1..Len(messages) : IsResultsMessage(messages[i])}

C29_EveryBatchIsPassedToALaterCall ==
    pc = "returned" => Cardinality(ResultsMessages) <= vendor_calls - 1

\* Every batch but one executed in the last allowed iteration is passed on.
BatchesBeforeTheLastIterationArePassed ==
    /\ Cardinality(ResultsMessages) <= vendor_calls
    /\ (pc = "returned" /\ result # MaxIterationsPayload) =>
            Cardinality(ResultsMessages) = vendor_calls - 1
    /\ (pc = "returned" /\ Cardinality(ResultsMessages) = vendor_calls) =>
            vendor_calls = max_iterations

BatchOfLastIterationIsDropped ==
    /\ pc = "returned"
    /\ vendor_calls = max_iterations
    /\ Cardinality(ResultsMessages) = max_iterations
    /\ result = MaxIterationsPayload

----------------------------------------------------------------------------
\* C30: when provider metadata is requested, meta.provider is the name of the
\* provider whose adapter get_provider constructed for the request (anthropic,
\* openai, gemini or vertex, with or without a model override), and meta.model
\* is the model name that adapter uses.
ProviderNameOf(class) ==
    IF class = "OpenAIResponsesProvider" THEN "openai"
    ELSE CHOOSE n \in DOMAIN providers : providers[n] = class

\* The model and provider entries of _build_meta for the adapter that was built.
MetaOfBuilt ==
    [model |-> factory_result.model_name,
     provider |-> MetaProvider(factory_result.model_name)]

C30_MetaNamesTheConstructedProvider ==
    Built =>
        /\ MetaOfBuilt.provider = ProviderNameOf(factory_result.class)
        /\ MetaOfBuilt.model = factory_result.model_name

\* What holds: meta.provider is the owner the model table lists for the model
\* name, "unknown" for an unlisted name, and never "vertex".
MetaProviderFollowsModelTable ==
    Built =>
        /\ MetaOfBuilt.provider \in {"anthropic", "openai", "gemini", "unknown"}
        /\ factory_result.model_name \notin DOMAIN MODELS => MetaOfBuilt.provider = "unknown"
        /\ MetaOfBuilt.model = factory_result.model_name

VertexReportedAsGemini ==
    /\ Built
    /\ factory_result.class = "VertexProvider"
    /\ factory_args.model = NoneArg
    /\ MetaOfBuilt.provider = "gemini"

OverrideReportedAsUnknown ==
    /\ Built
    /\ factory_result.class = "AnthropicProvider"
    /\ factory_args.model = "my-model"
    /\ MetaOfBuilt.provider = "unknown"

=============================================================================
